---- MODULE Spec2Model ----
(***************************************************************************)
(* Model of dataflow-hub's chunked batch importer (core/base_importer.py)  *)
(* and of its deduplication / merge engine (core/data_processor.py).       *)
(*                                                                         *)
(* Python values are tagged records: None, float NaN, a number (kept as a  *)
(* reduced fraction so that the true division of AVG is exact) and a       *)
(* string (a sequence of one-character strings).  A record (a dict) is a   *)
(* sequence of <<field, value>> pairs with pairwise distinct field names,  *)
(* in insertion order.                                                     *)
(***************************************************************************)
EXTENDS Integers, Sequences, FiniteSets, TLC

VARIABLES
    \* ---- the importer instance (BaseImporter.__init__)
    stats,            \* self.stats, one ProcessingStats per importer instance
    cfg,              \* self.chunk_size, self.max_retries, self.enable_validation
    now,              \* the wall clock read by datetime.now()
    \* ---- one call of run_import
    pc,               \* position inside run_import
    file,             \* the file at file_path
    chunk_size,       \* local chunk_size of run_import
    offset,           \* parameter offset
    df,               \* local df
    i,                \* loop variable i of the chunk loop
    j,                \* rows of the current batch already handed to process_row
    batch_records,    \* batch_records of process_batch / run_import
    deduped_data,     \* deduped_data of insert_batch
    calls,            \* what this run has called so far, in order (history)
    store,            \* the rows of the importer's table in the database
    \* ---- one call of DataProcessor.deduplicate_records, or of
    \* ---- FieldNormalizer.normalize_string, on its own
    d_in,             \* its arguments
    d_out,            \* its result: returned (done) or raised, and what it returned
    \* ---- the ProductImporter instance and its dimension tables
    dims,             \* the tables item_names and brands of the database
    item_name_cache,  \* self._item_name_cache
    brand_cache       \* self._brand_cache

vars == <<stats, cfg, now, pc, file, chunk_size, offset, df, i, j,
          batch_records, deduped_data, calls, store, d_in, d_out,
          dims, item_name_cache, brand_cache>>

importerVars == <<stats, cfg, now, pc, file, chunk_size, offset, df, i, j,
                  batch_records, deduped_data, calls, store>>

engineVars == <<d_in, d_out>>

productVars == <<dims, item_name_cache, brand_cache>>

-----------------------------------------------------------------------------
(* Bounds of the model.                                                    *)

MaxRows == 3
MaxChunk == 3
MaxOffset == 1
MaxRecs == 3
MaxRuns == 2

-----------------------------------------------------------------------------
(* Python values.                                                          *)

None == [t |-> "none"]
NaN == [t |-> "nan"]
Str(s) == [t |-> "str", s |-> s]

Abs(n) == IF n < 0 THEN -n ELSE n

RECURSIVE Gcd(_, _)
Gcd(a, b) == IF b = 0 THEN a ELSE Gcd(b, a % b)

\* n / d, d > 0, as a reduced fraction
Rat(n, d) ==
    LET g == Gcd(Abs(n), d)
    IN  [t |-> "num", num |-> n \div g, den |-> d \div g]

Num(n) == Rat(n, 1)

IsNone(v) == v.t = "none"
IsNaN(v) == v.t = "nan"

\* a < b on numbers
NumLess(a, b) == a.num * b.den < b.num * a.den

NumAdd(a, b) == Rat(a.num * b.den + b.num * a.den, a.den * b.den)

-----------------------------------------------------------------------------
(* Python strings.                                                         *)

IsSpace(c) == c = " "

LowerChar(c) ==
    CASE c = "A" -> "a"
      [] c = "B" -> "b"
      [] c = "L" -> "l"
      [] c = "N" -> "n"
      [] c = "U" -> "u"
      [] OTHER -> c

\* str.lower()
Lower(s) == [n \in 1..Len(s) |-> LowerChar(s[n])]

RECURSIVE LStrip(_)
LStrip(s) == IF Len(s) > 0 /\ IsSpace(Head(s)) THEN LStrip(Tail(s)) ELSE s

RECURSIVE RStrip(_)
RStrip(s) ==
    IF Len(s) > 0 /\ IsSpace(s[Len(s)])
    THEN RStrip(SubSeq(s, 1, Len(s) - 1))
    ELSE s

\* str.strip()
Strip(s) == RStrip(LStrip(s))

Digits == <<"0", "1", "2", "3", "4", "5", "6", "7", "8", "9">>

RECURSIVE NatToStr(_)
NatToStr(n) ==
    IF n < 10 THEN <<Digits[n + 1]>>
    ELSE NatToStr(n \div 10) \o <<Digits[(n % 10) + 1]>>

\* str(v) of a string or of a non-negative int
ToStr(v) == IF v.t = "str" THEN v.s ELSE NatToStr(v.num)

-----------------------------------------------------------------------------
(* Records (dicts).                                                        *)

HasField(record, f) == \E n \in 1..Len(record) : record[n][1] = f

FieldIndex(record, f) == CHOOSE n \in 1..Len(record) : record[n][1] = f

\* record.get(f, default)
GetOr(record, f, default) ==
    IF HasField(record, f) THEN record[FieldIndex(record, f)][2] ELSE default

\* record.get(f)
Get(record, f) == GetOr(record, f, None)

\* record[f] = v : in place when the key exists, appended otherwise
SetField(record, f, v) ==
    IF HasField(record, f)
    THEN [record EXCEPT ![FieldIndex(record, f)] = <<f, v>>]
    ELSE Append(record, <<f, v>>)

\* record.keys()
Keys(record) == {record[n][1] : n \in 1..Len(record)}

-----------------------------------------------------------------------------
(* DataProcessor: the deduplication / merge engine.                        *)

\* MergeStrategy and FieldMergeMode
MergeStrategy == {"first", "last", "keep_max", "merge"}
FieldMergeMode == {"sum", "max", "min", "avg", "first", "last", "concat"}

\* one component of a conflict key
KeyPart(val) ==
    IF val.t = "str"
    THEN (IF Len(val.s) > 0 THEN Str(Lower(Strip(val.s))) ELSE None)
    ELSE IF IsNaN(val) THEN None
    ELSE val

\* DataProcessor._create_conflict_key
CreateConflictKey(record, columns) ==
    [n \in 1..Len(columns) |-> KeyPart(Get(record, columns[n]))]

GroupIndex(groups, key) == CHOOSE g \in 1..Len(groups) : groups[g].key = key

\* mutant: a record joins the previous record's group or opens a new one
RECURSIVE GroupRecordsAdjacent(_, _, _, _)
GroupRecordsAdjacent(records, columns, idx, groups) ==
    IF idx > Len(records) THEN groups
    ELSE LET key == CreateConflictKey(records[idx], columns)
             item == <<idx - 1, records[idx]>>
         IN  IF Len(groups) > 0 /\ groups[Len(groups)].key = key
             THEN GroupRecordsAdjacent(records, columns, idx + 1,
                      [groups EXCEPT ![Len(groups)].items = Append(@, item)])
             ELSE GroupRecordsAdjacent(records, columns, idx + 1,
                      Append(groups, [key |-> key, items |-> <<item>>]))

\* mutant: a group that gets another record moves to the end of the groups
RECURSIVE GroupRecordsLastSeen(_, _, _, _)
GroupRecordsLastSeen(records, columns, idx, groups) ==
    IF idx > Len(records) THEN groups
    ELSE LET key == CreateConflictKey(records[idx], columns)
             item == <<idx - 1, records[idx]>>
             other(g) == g.key # key
         IN  IF \E g \in 1..Len(groups) : groups[g].key = key
             THEN GroupRecordsLastSeen(records, columns, idx + 1,
                      Append(SelectSeq(groups, other),
                             [key |-> key,
                              items |-> Append(groups[GroupIndex(groups, key)].items,
                                               item)]))
             ELSE GroupRecordsLastSeen(records, columns, idx + 1,
                      Append(groups, [key |-> key, items |-> <<item>>]))

\* the grouping loop of deduplicate_records: groups is the defaultdict, as the
\* sequence of its (key, items) entries in insertion order; idx is enumerate's
\* index plus one
RECURSIVE GroupRecords(_, _, _, _)
GroupRecords(records, columns, idx, groups) ==
    IF idx > Len(records) THEN groups
    ELSE LET key == CreateConflictKey(records[idx], columns)
             item == <<idx - 1, records[idx]>>
         IN  IF \E g \in 1..Len(groups) : groups[g].key = key
             THEN GroupRecords(records, columns, idx + 1,
                      [groups EXCEPT ![GroupIndex(groups, key)].items = Append(@, item)])
             ELSE GroupRecords(records, columns, idx + 1,
                      Append(groups, [key |-> key, items |-> <<item>>]))

NotNull(v) == ~IsNone(v) /\ ~IsNaN(v)

IsNotNone(v) == ~IsNone(v)

RECURSIVE SumSeq(_)
SumSeq(s) == IF Len(s) = 0 THEN Num(0) ELSE NumAdd(Head(s), SumSeq(Tail(s)))

\* max() and min() of a non-empty sequence of numbers
MaxSeq(s) == s[CHOOSE n \in 1..Len(s) : \A m \in 1..Len(s) : ~NumLess(s[n], s[m])]
MinSeq(s) == s[CHOOSE n \in 1..Len(s) : \A m \in 1..Len(s) : ~NumLess(s[m], s[n])]

ConcatSep == <<" ", "|", " ">>

\* " | ".join(str(v) for v in s)
RECURSIVE JoinStr(_)
JoinStr(s) ==
    IF Len(s) = 0 THEN <<>>
    ELSE IF Len(s) = 1 THEN ToStr(s[1])
    ELSE ToStr(s[1]) \o ConcatSep \o JoinStr(Tail(s))

\* mutant: no value left after filtering gives 0 instead of None
ApplyMergeModeZero(values, mode) ==
    LET filtered == SelectSeq(values, NotNull)
        nonNone == SelectSeq(values, IsNotNone)
    IN  IF Len(filtered) = 0 THEN Num(0)
        ELSE CASE mode = "sum" -> SumSeq(filtered)
               [] mode = "max" -> MaxSeq(filtered)
               [] mode = "min" -> MinSeq(filtered)
               [] mode = "avg" ->
                    LET total == SumSeq(filtered)
                    IN  Rat(total.num, total.den * Len(filtered))
               [] mode = "concat" -> Str(JoinStr(filtered))
               [] mode = "first" -> nonNone[1]
               [] OTHER -> nonNone[Len(nonNone)]

\* mutant: first and last are taken from the filtered values
ApplyMergeModeFiltered(values, mode) ==
    LET filtered == SelectSeq(values, NotNull)
    IN  IF Len(filtered) = 0 THEN None
        ELSE CASE mode = "sum" -> SumSeq(filtered)
               [] mode = "max" -> MaxSeq(filtered)
               [] mode = "min" -> MinSeq(filtered)
               [] mode = "avg" ->
                    LET total == SumSeq(filtered)
                    IN  Rat(total.num, total.den * Len(filtered))
               [] mode = "concat" -> Str(JoinStr(filtered))
               [] mode = "first" -> filtered[1]
               [] OTHER -> filtered[Len(filtered)]

\* DataProcessor._apply_merge_mode
ApplyMergeMode(values, mode) ==
    LET filtered == SelectSeq(values, NotNull)
        nonNone == SelectSeq(values, IsNotNone)
    IN  IF Len(filtered) = 0 THEN None
        ELSE CASE mode = "sum" -> SumSeq(filtered)
               [] mode = "max" -> MaxSeq(filtered)
               [] mode = "min" -> MinSeq(filtered)
               [] mode = "avg" ->
                    LET total == SumSeq(filtered)
                    IN  Rat(total.num, total.den * Len(filtered))
               [] mode = "concat" -> Str(JoinStr(filtered))
               [] mode = "first" -> nonNone[1]
               [] OTHER -> nonNone[Len(nonNone)]

\* the union of the records' keys
AllFields(records) == UNION {Keys(records[n]) : n \in 1..Len(records)}

\* mutant: a field without a rule is merged by mode first
RECURSIVE MergeFieldsDefaultFirst(_, _, _, _)
MergeFieldsDefaultFirst(merged, records, merge_rules, fields) ==
    IF Len(fields) = 0 THEN merged
    ELSE LET field == Head(fields)
             values == [n \in 1..Len(records) |-> Get(records[n], field)]
             mode == GetOr(merge_rules, field, "first")
         IN  MergeFieldsDefaultFirst(
                 SetField(merged, field, ApplyMergeMode(values, mode)),
                 records, merge_rules, Tail(fields))

\* mutant: a field without a rule is merged by mode concat
RECURSIVE MergeFieldsDefaultConcat(_, _, _, _)
MergeFieldsDefaultConcat(merged, records, merge_rules, fields) ==
    IF Len(fields) = 0 THEN merged
    ELSE LET field == Head(fields)
             values == [n \in 1..Len(records) |-> Get(records[n], field)]
             mode == GetOr(merge_rules, field, "concat")
         IN  MergeFieldsDefaultConcat(
                 SetField(merged, field, ApplyMergeMode(values, mode)),
                 records, merge_rules, Tail(fields))

\* the loop over all_fields of _merge_records, fields being the fields still
\* to visit
RECURSIVE MergeFields(_, _, _, _)
MergeFields(merged, records, merge_rules, fields) ==
    IF Len(fields) = 0 THEN merged
    ELSE LET field == Head(fields)
             values == [n \in 1..Len(records) |-> Get(records[n], field)]
             mode == GetOr(merge_rules, field, "last")
         IN  MergeFields(SetField(merged, field, ApplyMergeMode(values, mode)),
                         records, merge_rules, Tail(fields))

\* DataProcessor._merge_records.  all_fields is a Python set, whose iteration
\* order is not fixed: order is the order in which this call visits the
\* field names.
MergeRecords(records, merge_rules, order) ==
    LET all_fields == AllFields(records)
        present(f) == f \in all_fields
    IN  MergeFields(records[Len(records)], records, merge_rules,
                    SelectSeq(order, present))

\* r.get('priority_field', 0)
Priority(record) == GetOr(record, "priority_field", Num(0))

\* a > b as max() evaluates it on two keys that are numbers or NaN: every
\* comparison with NaN is False
KeyGreater(a, b) == IF IsNaN(a) \/ IsNaN(b) THEN FALSE ELSE NumLess(b, a)

\* the loop of max(): the record kept so far is replaced by one whose key
\* compares greater
RECURSIVE MaxFrom(_, _, _)
MaxFrom(records, n, best) ==
    IF n > Len(records) THEN best
    ELSE MaxFrom(records, n + 1,
             IF KeyGreater(Priority(records[n]), Priority(best))
             THEN records[n] ELSE best)

\* max(records, key=lambda r: r.get('priority_field', 0)) on keys that can
\* be compared
KeepMax(records) == MaxFrom(records, 2, records[1])

\* max() compares every record's key with another one; None > number and
\* number > None raise TypeError
KeepMaxRaises(records) ==
    /\ Len(records) > 1
    /\ \E n \in 1..Len(records) : IsNone(Priority(records[n]))

\* DataProcessor._resolve_duplicates
ResolveDuplicates(records, strategy, merge_rules, order) ==
    CASE strategy = "first" -> records[1]
      [] strategy = "last" -> records[Len(records)]
      [] strategy = "merge" -> MergeRecords(records, merge_rules, order)
      [] OTHER -> KeepMax(records)

\* mutant: every group is reported
IsAnyGroup(g) == Len(g.items) > 0

\* the filter of duplicates_info: len(v) > 1
IsDuplicateGroup(g) == Len(g.items) > 1

\* DataProcessor.deduplicate_records: (deduped_records, duplicates_info)
DeduplicateRecords(records, conflict_columns, strategy, merge_rules, order) ==
    LET groups == GroupRecords(records, conflict_columns, 1, <<>>)
        resolve(g) ==
            IF Len(g.items) = 1 THEN g.items[1][2]
            ELSE ResolveDuplicates([n \in 1..Len(g.items) |-> g.items[n][2]],
                                   strategy, merge_rules, order)
    IN  [deduped |-> [n \in 1..Len(groups) |-> resolve(groups[n])],
         dup |-> SelectSeq(groups, IsDuplicateGroup)]

\* deduplicate_records raises what _resolve_duplicates raises for one of
\* its groups
DeduplicateRaises(records, conflict_columns, strategy) ==
    LET groups == GroupRecords(records, conflict_columns, 1, <<>>)
    IN  /\ strategy = "keep_max"
        /\ \E g \in 1..Len(groups) :
              KeepMaxRaises([n \in 1..Len(groups[g].items) |-> groups[g].items[n][2]])

\* the sequences that enumerate the set S without repetition
Perms(S) ==
    {p \in [1..Cardinality(S) -> S] :
        \A a, b \in 1..Cardinality(S) : a # b => p[a] # p[b]}

\* the fields that every one of the records has
CommonFields(records) ==
    {f \in AllFields(records) : \A n \in 1..Len(records) : HasField(records[n], f)}

\* The orders in which the set all_fields of _merge_records may be visited.
\* A field that every record has is overwritten in place in the copy of the
\* group's last record, so its place in the visit cannot show in the result:
\* such fields are visited first and only the other fields are permuted.
SetOrders(records) ==
    LET common == CommonFields(records)
        first == CHOOSE p \in Perms(common) : TRUE
    IN  {first \o p : p \in Perms(AllFields(records) \ common)}

-----------------------------------------------------------------------------
(* ProcessingStats.                                                        *)

\* ProcessingStats() created at time t; an Optional time is <<>> or <<t>>
ProcessingStats(t) ==
    [start_time |-> <<t>>, end_time |-> <<>>,
     total_input_records |-> 0, total_output_records |-> 0,
     successful_records |-> 0, skipped_records |-> 0, error_records |-> 0,
     duplicate_groups |-> 0, validation_errors |-> 0, database_errors |-> 0]

\* ProcessingStats.finish
StatsFinish(st, t) == [st EXCEPT !.end_time = <<t>>]

-----------------------------------------------------------------------------
(* The importer: a BaseImporter whose hooks are the defaults of the base   *)
(* class.  What the abstract row mapper does with a row is part of the     *)
(* row: it returns a record (possibly the empty dict), returns None, or    *)
(* raises.                                                                 *)

\* get_conflict_columns of the modelled importer
ConflictColumns == <<"barcode">>

\* BaseImporter.get_merge_rules
MergeRules ==
    << <<"current_stock", "sum">>, <<"quantity", "sum">>, <<"amount", "sum">> >>

RowRecords ==
    { << <<"barcode", Str(<<"a">>)>>, <<"quantity", Num(3)>> >>,
      << <<"barcode", Str(<<" ", "A">>)>>, <<"quantity", Num(5)>> >>,
      << <<"barcode", Str(<<"b">>)>>, <<"quantity", Num(3)>> >>,
      <<>> }

RowKinds ==
    {[out |-> "record", rec |-> r] : r \in RowRecords}
    \cup {[out |-> "none", rec |-> <<>>], [out |-> "raise", rec |-> <<>>]}

\* the configurations read by BaseImporter.__init__
Configs ==
    {[chunk_size |-> c, max_retries |-> r, enable_validation |-> v] :
        c \in {0, MaxChunk}, r \in {0, 3}, v \in BOOLEAN}

\* a missing file, one the reader fails on, one whose structure the
\* validator rejects, and a good one
EmptyFiles ==
    {[exists |-> FALSE, readable |-> FALSE, valid |-> FALSE, rows |-> <<>>],
     [exists |-> TRUE, readable |-> FALSE, valid |-> FALSE, rows |-> <<>>],
     [exists |-> TRUE, readable |-> TRUE, valid |-> FALSE, rows |-> <<>>],
     [exists |-> TRUE, readable |-> TRUE, valid |-> TRUE, rows |-> <<>>]}


\* tuple(row.get(col) for col in conflict_columns)
RawKey(row, conflict_columns) ==
    [n \in 1..Len(conflict_columns) |-> Get(row, conflict_columns[n])]

\* deduplicate_data of bulkUpsertRecords: the first row of every raw key
RECURSIVE DeduplicateData(_, _)
DeduplicateData(data_list, conflict_columns) ==
    IF Len(data_list) = 0 THEN <<>>
    ELSE LET seen == DeduplicateData(SubSeq(data_list, 1, Len(data_list) - 1),
                                     conflict_columns)
             row == data_list[Len(data_list)]
         IN  IF \E n \in 1..Len(seen) :
                   RawKey(seen[n], conflict_columns) = RawKey(row, conflict_columns)
             THEN seen
             ELSE Append(seen, row)

\* the unique index on the conflict columns: a stored row and a proposed
\* row conflict when they agree on every conflict column, nulls never do
ConflictsWith(stored, row, conflict_columns) ==
    \A n \in 1..Len(conflict_columns) :
        LET c == conflict_columns[n]
        IN  /\ c \in DOMAIN stored
            /\ ~IsNone(stored[c])
            /\ stored[c] = Get(row, c)

\* INSERT ... ON CONFLICT (conflict_columns) DO UPDATE SET col = excluded.col
\* for one proposed row
UpsertRow(table, row, conflict_columns, update_columns) ==
    IF \E k \in 1..Len(table) : ConflictsWith(table[k], row, conflict_columns)
    THEN LET k == CHOOSE k \in 1..Len(table) :
                      ConflictsWith(table[k], row, conflict_columns)
         IN  [table EXCEPT ![k] =
                 [c \in (DOMAIN table[k]) \cup update_columns |->
                     IF c \in update_columns THEN Get(row, c) ELSE table[k][c]]]
    ELSE Append(table, [c \in Keys(row) |-> Get(row, c)])

RECURSIVE UpsertRows(_, _, _, _)
UpsertRows(table, data, conflict_columns, update_columns) ==
    IF Len(data) = 0 THEN table
    ELSE UpsertRows(UpsertRow(table, Head(data), conflict_columns, update_columns),
                    Tail(data), conflict_columns, update_columns)

\* mutant: only the first row of the list reaches the table
BulkUpsertFirstOnly(table, data_list, conflict_columns) ==
    IF Len(data_list) = 0 THEN table
    ELSE LET data == DeduplicateData(data_list, conflict_columns)
             update_columns ==
                 Keys(data[1]) \ {conflict_columns[n] : n \in 1..Len(conflict_columns)}
         IN  UpsertRow(table, data[1], conflict_columns, update_columns)

\* DB.bulkUpsertRecords on the table of the importer, when it commits
BulkUpsertRecords(table, data_list, conflict_columns) ==
    IF Len(data_list) = 0 THEN table
    ELSE LET data == DeduplicateData(data_list, conflict_columns)
             update_columns ==
                 Keys(data[1]) \ {conflict_columns[n] : n \in 1..Len(conflict_columns)}
         IN  UpsertRows(table, data, conflict_columns, update_columns)

\* the table before the run: one row, whose key one of the records has
InitialStore == << [barcode |-> Str(<<"a">>), quantity |-> Num(1)] >>

\* ProductImporter.__init__: both caches are empty; the dimension tables
\* have no rows yet
ProductIdle ==
    /\ dims = [item_names |-> {}, brands |-> {}]
    /\ item_name_cache = <<>>
    /\ brand_cache = <<>>

EngineIdle ==
    /\ d_in = [records |-> <<>>, columns |-> <<>>, strategy |-> "last", rules |-> <<>>]
    /\ d_out = [done |-> FALSE, raised |-> FALSE, deduped |-> <<>>, dup |-> <<>>]

\* BaseImporter.__init__, and the file the run will be given
Init ==
    /\ stats = ProcessingStats(0)
    /\ now = 1
    /\ cfg \in Configs
    /\ file \in EmptyFiles
    /\ pc = "idle"
    /\ chunk_size = 0 /\ offset = 0 /\ df = <<>> /\ i = 0 /\ j = 0
    /\ batch_records = <<>> /\ deduped_data = <<>> /\ calls = <<>>
    /\ store = InitialStore
    /\ EngineIdle
    /\ ProductIdle

\* the file gets one more row before the run
WriteRow ==
    /\ pc = "idle"
    /\ file.exists /\ file.readable
    /\ Len(file.rows) < MaxRows
    /\ \E r \in RowKinds : file' = [file EXCEPT !.rows = Append(@, r)]
    /\ UNCHANGED <<stats, cfg, now, pc, chunk_size, offset, df, i, j,
                   batch_records, deduped_data, calls, store, engineVars, productVars>>

\* run_import is called: chunk_size = chunk_size or self.chunk_size
\* (the argument 0 stands for None as well: both are falsy)
StartRun ==
    /\ pc = "idle"
    /\ \E c \in 0..MaxChunk, o \in 0..MaxOffset :
          /\ chunk_size' = (IF c # 0 THEN c ELSE cfg.chunk_size)
          /\ offset' = o
    /\ pc' = "load"
    /\ calls' = <<>>
    /\ UNCHANGED <<stats, cfg, now, file, df, i, j, batch_records,
                   deduped_data, store, engineVars, productVars>>

\* mutant: the verdict of the validator is not acted upon
LoadIgnoringValidator ==
    /\ pc = "load"
    /\ IF ~file.exists \/ ~file.readable
       THEN /\ pc' = "except"
            /\ UNCHANGED <<stats, df>>
       ELSE /\ stats' = [stats EXCEPT !.total_input_records = Len(file.rows)]
            /\ pc' = "offset" /\ df' = file.rows
    /\ UNCHANGED <<cfg, now, file, chunk_size, offset, i, j, batch_records,
                   deduped_data, calls, store, engineVars, productVars>>

\* load_and_validate_file; an exception goes to the handler of run_import
LoadAndValidateFile ==
    /\ pc = "load"
    /\ IF ~file.exists \/ ~file.readable
       THEN /\ pc' = "except"
            /\ UNCHANGED <<stats, df>>
       ELSE /\ stats' = [stats EXCEPT !.total_input_records = Len(file.rows)]
            /\ IF cfg.enable_validation /\ ~file.valid
               THEN pc' = "except" /\ UNCHANGED df
               ELSE pc' = "offset" /\ df' = file.rows
    /\ UNCHANGED <<cfg, now, file, chunk_size, offset, i, j, batch_records,
                   deduped_data, calls, store, engineVars, productVars>>

\* mutant: the slice starts one row early
DropRowsOneEarly(rows, n) == SubSeq(rows, n, Len(rows))

\* df.iloc[offset:]
DropRows(rows, n) == SubSeq(rows, n + 1, Len(rows))

\* preprocess_dataframe (the identity), the offset, and total_batches =
\* math.ceil(total_records / chunk_size), which raises for chunk_size = 0
ApplyOffset ==
    /\ pc = "offset"
    /\ df' = (IF offset > 0 THEN DropRows(df, offset) ELSE df)
    /\ IF chunk_size = 0
       THEN pc' = "except" /\ UNCHANGED i
       ELSE pc' = "loop" /\ i' = 0
    /\ UNCHANGED <<stats, cfg, now, file, chunk_size, offset, j, batch_records,
                   deduped_data, calls, store, engineVars, productVars>>

\* len(df.iloc[i:i + chunk_size])
BatchSize == IF Len(df) - i < chunk_size THEN Len(df) - i ELSE chunk_size

\* mutant: batch_records is not emptied between the batches
NextBatchKeepingRecords ==
    /\ pc = "loop"
    /\ IF i < Len(df)
       THEN /\ pc' = "rows"
            /\ j' = 0
            /\ calls' = Append(calls, [ev |-> "batch", at |-> i, size |-> BatchSize])
       ELSE /\ pc' = "finish"
            /\ UNCHANGED <<j, calls>>
    /\ UNCHANGED <<stats, cfg, now, file, chunk_size, offset, df, i,
                   batch_records, deduped_data, store, engineVars, productVars>>

\* the head of: for i in range(0, total_records, chunk_size)
NextBatch ==
    /\ pc = "loop"
    /\ IF i < Len(df)
       THEN /\ pc' = "rows"
            /\ j' = 0
            /\ batch_records' = <<>>
            /\ calls' = Append(calls, [ev |-> "batch", at |-> i, size |-> BatchSize])
       ELSE /\ pc' = "finish"
            /\ UNCHANGED <<j, batch_records, calls>>
    /\ UNCHANGED <<stats, cfg, now, file, chunk_size, offset, df, i,
                   deduped_data, store, engineVars, productVars>>

\* mutant: a row the mapper returns None for is counted as an error
CountRowNoneAsError(st, row) ==
    IF row.out = "raise" \/ row.out = "none"
    THEN [st EXCEPT !.error_records = @ + 1]
    ELSE IF row.out = "record" /\ Len(row.rec) > 0
    THEN [st EXCEPT !.successful_records = @ + 1]
    ELSE [st EXCEPT !.skipped_records = @ + 1]

\* the counters after one iteration of the loop of process_batch
CountRow(st, row) ==
    IF row.out = "raise"
    THEN [st EXCEPT !.error_records = @ + 1]
    ELSE IF row.out = "record" /\ Len(row.rec) > 0
    THEN [st EXCEPT !.successful_records = @ + 1]
    ELSE [st EXCEPT !.skipped_records = @ + 1]

\* batch_records after one iteration of the loop of process_batch
CollectRow(records, row) ==
    IF row.out = "record" /\ Len(row.rec) > 0
    THEN Append(records, row.rec)
    ELSE records

\* mutant: the exception of the row mapper is not caught in process_batch
ProcessRowUncaught ==
    /\ pc = "rows"
    /\ LET row == df[i + j + 1]
       IN  /\ stats' = CountRow(stats, row)
           /\ batch_records' = CollectRow(batch_records, row)
           /\ calls' = Append(calls, [ev |-> "row", at |-> i + j, out |-> row.out])
           /\ IF row.out = "raise"
              THEN pc' = "except" /\ UNCHANGED i
              ELSE IF j + 1 < BatchSize
              THEN pc' = "rows" /\ UNCHANGED i
              ELSE IF Len(batch_records') > 0
              THEN pc' = "insert" /\ UNCHANGED i
              ELSE pc' = "loop" /\ i' = i + chunk_size
    /\ j' = j + 1
    /\ UNCHANGED <<cfg, now, file, chunk_size, offset, df, deduped_data,
                   store, engineVars, productVars>>

\* mutant: the batch is inserted as soon as it has a record, while rows of
\* the batch are still waiting for the row mapper
ProcessRowInsertsEarly ==
    /\ pc = "rows"
    /\ LET row == df[i + j + 1]
       IN  /\ stats' = CountRow(stats, row)
           /\ batch_records' = CollectRow(batch_records, row)
           /\ calls' = Append(calls, [ev |-> "row", at |-> i + j, out |-> row.out])
    /\ j' = j + 1
    /\ IF Len(batch_records') > 0
       THEN pc' = "insert" /\ UNCHANGED i
       ELSE IF j + 1 < BatchSize
       THEN pc' = "rows" /\ UNCHANGED i
       ELSE pc' = "loop" /\ i' = i + chunk_size
    /\ UNCHANGED <<cfg, now, file, chunk_size, offset, df, deduped_data,
                   store, engineVars, productVars>>

\* mutant: the try is around the loop of process_batch, so a row that
\* raises ends the batch
ProcessRowAbortsBatch ==
    /\ pc = "rows"
    /\ LET row == df[i + j + 1]
       IN  /\ stats' = CountRow(stats, row)
           /\ batch_records' = CollectRow(batch_records, row)
           /\ calls' = Append(calls, [ev |-> "row", at |-> i + j, out |-> row.out])
           /\ IF j + 1 < BatchSize /\ row.out # "raise"
              THEN pc' = "rows" /\ UNCHANGED i
              ELSE IF Len(batch_records') > 0
              THEN pc' = "insert" /\ UNCHANGED i
              ELSE pc' = "loop" /\ i' = i + chunk_size
    /\ j' = j + 1
    /\ UNCHANGED <<cfg, now, file, chunk_size, offset, df, deduped_data,
                   store, engineVars, productVars>>

\* mutant: insert_batch is entered after every batch and goes on with an
\* empty list
ProcessRowInsertsEmpty ==
    /\ pc = "rows"
    /\ LET row == df[i + j + 1]
       IN  /\ stats' = CountRow(stats, row)
           /\ batch_records' = CollectRow(batch_records, row)
           /\ calls' = Append(calls, [ev |-> "row", at |-> i + j, out |-> row.out])
    /\ j' = j + 1
    /\ IF j + 1 < BatchSize
       THEN pc' = "rows" /\ UNCHANGED i
       ELSE pc' = "insert" /\ UNCHANGED i
    /\ UNCHANGED <<cfg, now, file, chunk_size, offset, df, deduped_data,
                   store, engineVars, productVars>>

\* one iteration of the loop of process_batch; after the last row of the
\* batch run_import goes on: insert_batch if batch_records, else the next i
ProcessRow ==
    /\ pc = "rows"
    /\ LET row == df[i + j + 1]
       IN  /\ stats' = CountRow(stats, row)
           /\ batch_records' = CollectRow(batch_records, row)
           /\ calls' = Append(calls, [ev |-> "row", at |-> i + j, out |-> row.out])
    /\ j' = j + 1
    /\ IF j + 1 < BatchSize
       THEN pc' = "rows" /\ UNCHANGED i
       ELSE IF Len(batch_records') > 0
       THEN pc' = "insert" /\ UNCHANGED i
       ELSE pc' = "loop" /\ i' = i + chunk_size
    /\ UNCHANGED <<cfg, now, file, chunk_size, offset, df, deduped_data,
                   store, engineVars, productVars>>

\* mutant: duplicate_groups counts the records dropped, not the groups
DedupeBatchCountingRecords ==
    /\ pc = "insert"
    /\ \E order \in SetOrders(batch_records) :
          LET r == DeduplicateRecords(batch_records, ConflictColumns, "merge",
                                      MergeRules, order)
          IN  /\ deduped_data' = r.deduped
              /\ stats' = [stats EXCEPT !.duplicate_groups =
                                @ + Len(batch_records) - Len(r.deduped)]
              /\ calls' = Append(calls, [ev |-> "dedupe", at |-> i,
                                         groups |-> Len(r.dup)])
    /\ pc' = "persist"
    /\ UNCHANGED <<cfg, now, file, chunk_size, offset, df, i, j, batch_records,
                   store, engineVars, productVars>>

\* insert_batch up to the persister call: postprocess_batch (the identity),
\* deduplicate_records, duplicate_groups += len(dup_info)
DedupeBatch ==
    /\ pc = "insert"
    /\ \E order \in SetOrders(batch_records) :
          LET r == DeduplicateRecords(batch_records, ConflictColumns, "merge",
                                      MergeRules, order)
          IN  /\ deduped_data' = r.deduped
              /\ stats' = [stats EXCEPT !.duplicate_groups = @ + Len(r.dup)]
              /\ calls' = Append(calls, [ev |-> "dedupe", at |-> i,
                                         groups |-> Len(r.dup)])
    /\ pc' = "persist"
    /\ UNCHANGED <<cfg, now, file, chunk_size, offset, df, i, j, batch_records,
                   store, engineVars, productVars>>

\* mutant: the size of the batch before dedupe is counted as output
PersistBatchCountingInput ==
    /\ pc = "persist"
    /\ stats' = [stats EXCEPT !.total_output_records = @ + Len(batch_records)]
    /\ calls' = Append(calls, [ev |-> "persist", at |-> i,
                               records |-> deduped_data, ok |-> TRUE])
    /\ store' = BulkUpsertRecords(store, deduped_data, ConflictColumns)
    /\ pc' = "loop"
    /\ i' = i + chunk_size
    /\ UNCHANGED <<cfg, now, file, chunk_size, offset, df, j, batch_records,
                   deduped_data, engineVars, productVars>>

\* bulkUpsertRecords returns: insert_batch returns len(deduped_data), which
\* run_import adds to total_output_records
PersistBatch ==
    /\ pc = "persist"
    /\ stats' = [stats EXCEPT !.total_output_records = @ + Len(deduped_data)]
    /\ calls' = Append(calls, [ev |-> "persist", at |-> i,
                               records |-> deduped_data, ok |-> TRUE])
    /\ store' = BulkUpsertRecords(store, deduped_data, ConflictColumns)
    /\ pc' = "loop"
    /\ i' = i + chunk_size
    /\ UNCHANGED <<cfg, now, file, chunk_size, offset, df, j, batch_records,
                   deduped_data, engineVars, productVars>>

\* mutant: the exception of the persister is not caught in insert_batch
PersistFailsUncaught ==
    /\ pc = "persist"
    /\ calls' = Append(calls, [ev |-> "persist", at |-> i,
                               records |-> deduped_data, ok |-> FALSE])
    /\ pc' = "except"
    /\ UNCHANGED <<stats, cfg, now, file, chunk_size, offset, df, i, j,
                   batch_records, deduped_data, store, engineVars, productVars>>

\* mutant: the records of the failed batch are counted as output
PersistFailsCounted ==
    /\ pc = "persist"
    /\ stats' = [stats EXCEPT !.database_errors = @ + 1,
                              !.total_output_records = @ + Len(deduped_data)]
    /\ calls' = Append(calls, [ev |-> "persist", at |-> i,
                               records |-> deduped_data, ok |-> FALSE])
    /\ pc' = "loop"
    /\ i' = i + chunk_size
    /\ UNCHANGED <<cfg, now, file, chunk_size, offset, df, j, batch_records,
                   deduped_data, store, engineVars, productVars>>

\* mutant: a failed persister call is repeated up to max_retries times
PersistFailsRetried ==
    /\ pc = "persist"
    /\ stats' = [stats EXCEPT !.database_errors = @ + 1,
                              !.total_output_records = @ + 0]
    /\ calls' = Append(calls, [ev |-> "persist", at |-> i,
                               records |-> deduped_data, ok |-> FALSE])
    /\ LET failed(e) == e.ev = "persist" /\ ~e.ok /\ e.at = i
       IN  IF Len(SelectSeq(calls, failed)) < cfg.max_retries
           THEN pc' = "persist" /\ UNCHANGED i
           ELSE pc' = "loop" /\ i' = i + chunk_size
    /\ UNCHANGED <<cfg, now, file, chunk_size, offset, df, j, batch_records,
                   deduped_data, store, engineVars, productVars>>

\* bulkUpsertRecords raises: insert_batch counts a database error and
\* returns 0, which run_import adds to total_output_records
PersistFails ==
    /\ pc = "persist"
    /\ stats' = [stats EXCEPT !.database_errors = @ + 1,
                              !.total_output_records = @ + 0]
    /\ calls' = Append(calls, [ev |-> "persist", at |-> i,
                               records |-> deduped_data, ok |-> FALSE])
    /\ pc' = "loop"
    /\ i' = i + chunk_size
    /\ UNCHANGED <<cfg, now, file, chunk_size, offset, df, j, batch_records,
                   deduped_data, store, engineVars, productVars>>

\* after the loop: stats.finish(), stats.log_summary(), return self.stats
Finish ==
    /\ pc = "finish"
    /\ stats' = StatsFinish(stats, now)
    /\ now' = now + 1
    /\ calls' = Append(calls, [ev |-> "summary", at |-> now])
    /\ pc' = "Completed"
    /\ UNCHANGED <<cfg, file, chunk_size, offset, df, i, j, batch_records,
                   deduped_data, store, engineVars, productVars>>

\* the handler of run_import: stats.finish(), then the exception is re-raised
Except ==
    /\ pc = "except"
    /\ stats' = StatsFinish(stats, now)
    /\ now' = now + 1
    /\ pc' = "Failed"
    /\ UNCHANGED <<cfg, file, chunk_size, offset, df, i, j, batch_records,
                   deduped_data, calls, store, engineVars, productVars>>

Next ==
    \/ WriteRow
    \/ StartRun
    \/ LoadAndValidateFile
    \/ ApplyOffset
    \/ NextBatch
    \/ ProcessRow
    \/ DedupeBatch
    \/ PersistBatch
    \/ PersistFails
    \/ Finish
    \/ Except

Spec == Init /\ [][Next]_vars

\* the steps of run_import itself: the code is sequential and every call it
\* makes returns or raises, so a run that can take a step takes it
RunStep ==
    \/ LoadAndValidateFile
    \/ ApplyOffset
    \/ NextBatch
    \/ ProcessRow
    \/ PersistBatch
    \/ PersistFails
    \/ Finish
    \/ Except

\* the dedupe step of insert_batch, told by the position of the run:
\* DedupeBatch is enabled in every state at "insert" (SetOrders is never
\* empty) and is the only step of Next from "insert" to "persist", so weak
\* fairness of this action is weak fairness of DedupeBatch
ReachesPersister == pc = "insert" /\ pc' = "persist"

FairSpec == Spec /\ WF_vars(RunStep) /\ WF_pc(ReachesPersister)

\* mutant: a new run zeroes the counters of process_batch only
RunAgainResetsRowCounters ==
    /\ pc \in {"Completed", "Failed"}
    /\ now < MaxRuns + 1
    /\ \E c \in 0..MaxChunk, o \in 0..MaxOffset :
          /\ chunk_size' = (IF c # 0 THEN c ELSE cfg.chunk_size)
          /\ offset' = o
    /\ pc' = "load"
    /\ calls' = <<>>
    /\ df' = <<>> /\ i' = 0 /\ j' = 0
    /\ batch_records' = <<>> /\ deduped_data' = <<>>
    /\ stats' = [stats EXCEPT !.successful_records = 0,
                              !.skipped_records = 0,
                              !.error_records = 0]
    /\ UNCHANGED <<cfg, now, file, store, engineVars, productVars>>

\* run_import is called again on the same importer, as run_single_import
\* does with the importers the orchestrator built once in its __init__:
\* self.stats is the object of the earlier run, the locals are new.  The
\* clock has ticked once per finished run.
RunAgain ==
    /\ pc \in {"Completed", "Failed"}
    /\ now < MaxRuns + 1
    /\ \E c \in 0..MaxChunk, o \in 0..MaxOffset :
          /\ chunk_size' = (IF c # 0 THEN c ELSE cfg.chunk_size)
          /\ offset' = o
    /\ pc' = "load"
    /\ calls' = <<>>
    /\ df' = <<>> /\ i' = 0 /\ j' = 0
    /\ batch_records' = <<>> /\ deduped_data' = <<>>
    /\ UNCHANGED <<stats, cfg, now, file, store, engineVars, productVars>>

NextRuns == Next \/ RunAgain

\* an importer that serves up to MaxRuns calls of run_import
SpecRuns == Init /\ [][NextRuns]_vars

-----------------------------------------------------------------------------
(* What a run has done so far, read from its history and from its input.   *)

IsBatchEv(e) == e.ev = "batch"
IsRowEv(e) == e.ev = "row"
IsDedupeEv(e) == e.ev = "dedupe"
IsPersistEv(e) == e.ev = "persist"
IsSummaryEv(e) == e.ev = "summary"

BatchEvs == SelectSeq(calls, IsBatchEv)
RowEvs == SelectSeq(calls, IsRowEv)
DedupeEvs == SelectSeq(calls, IsDedupeEv)
PersistEvs == SelectSeq(calls, IsPersistEv)

IsOkPersist(e) == e.ev = "persist" /\ e.ok
IsFailedPersist(e) == e.ev = "persist" /\ ~e.ok

\* the rows left after the offset, from the file itself
RemainingCount ==
    IF Len(file.rows) > offset THEN Len(file.rows) - offset ELSE 0

CeilDiv(a, b) == (a + b - 1) \div b

\* the row mapper made a record of the row that process_batch keeps
YieldsRecord(row) == row.out = "record" /\ Len(row.rec) > 0

\* the records the rows of the file at offset + at + 1 .. offset + at + n
\* are mapped to, in row order
RECURSIVE TransformedRecords(_, _)
TransformedRecords(at, n) ==
    IF n = 0 THEN <<>>
    ELSE LET row == file.rows[offset + at + n]
         IN  TransformedRecords(at, n - 1)
                \o (IF YieldsRecord(row) THEN <<row.rec>> ELSE <<>>)

\* size of the batch that starts at row at of the remaining rows
SliceSize(at) ==
    IF RemainingCount - at < chunk_size THEN RemainingCount - at ELSE chunk_size

KeysOf(records, columns) ==
    {CreateConflictKey(records[n], columns) : n \in 1..Len(records)}

\* the conflict keys that more than one of the records has
RepeatedKeys(records, columns) ==
    {k \in KeysOf(records, columns) :
        Cardinality({n \in 1..Len(records) :
                        CreateConflictKey(records[n], columns) = k}) > 1}

RECURSIVE SumInts(_)
SumInts(ns) == IF Len(ns) = 0 THEN 0 ELSE Head(ns) + SumInts(Tail(ns))

SumOverEvents(evs, F(_)) == SumInts([n \in 1..Len(evs) |-> F(evs[n])])

-----------------------------------------------------------------------------
(* Claims on the importer.                                                 *)

\* C1 -- batch failure isolation: a persister failure never aborts the run;
\* database_errors is the number of failed persister calls, and
\* total_output_records is the sum of the deduplicated sizes of the batches
\* whose persister call succeeded (nothing from a failed batch); a run that
\* completes has handed every batch that has records to the persister, the
\* batches after a failed one included.
C1_BatchFailureIsolation ==
    LET sent(e) == Len(e.records)
        starts == {k * chunk_size : k \in 0..RemainingCount} \cap 0..(RemainingCount - 1)
    IN  /\ stats.database_errors = Len(SelectSeq(calls, IsFailedPersist))
        /\ stats.total_output_records = SumOverEvents(SelectSeq(calls, IsOkPersist), sent)
        /\ Len(SelectSeq(calls, IsFailedPersist)) > 0 => pc \notin {"except", "Failed"}
        /\ pc = "Completed" =>
              \A at \in starts :
                 Len(TransformedRecords(at, SliceSize(at))) > 0 =>
                    Cardinality({n \in 1..Len(PersistEvs) : PersistEvs[n].at = at}) = 1

\* C1 witness: batch 2 of 3 failed, batches 1 and 3 were written and counted
C1_Witness ==
    /\ pc = "Completed"
    /\ Len(PersistEvs) = 3
    /\ PersistEvs[1].ok /\ ~PersistEvs[2].ok /\ PersistEvs[3].ok
    /\ stats.database_errors = 1
    /\ stats.total_output_records = 2

\* C2 -- row failure isolation: the rows are handed to the row mapper one
\* by one in input order; each row whose mapper raises adds exactly 1 to
\* error_records and nothing to successful_records or skipped_records; a
\* raising row never sends the run to its exception handler, and a run that
\* completes has handed every remaining row to the mapper.
C2_RowFailureIsolation ==
    LET n == Len(RowEvs)
        raised == {k \in 1..n : file.rows[offset + k].out = "raise"}
    IN  /\ \A k \in 1..n : RowEvs[k].at = k - 1
        /\ n <= RemainingCount
        /\ stats.error_records = Cardinality(raised)
        /\ stats.successful_records + stats.skipped_records = n - Cardinality(raised)
        /\ n > 0 => pc \notin {"except", "Failed"}
        /\ pc = "Completed" => n = RemainingCount

\* C2 witness: the first row of a batch raised, the second one was mapped
C2_Witness ==
    /\ pc = "Completed"
    /\ chunk_size = 2 /\ offset = 0
    /\ Len(file.rows) = 3
    /\ file.rows[1].out = "raise"
    /\ YieldsRecord(file.rows[2]) /\ YieldsRecord(file.rows[3])
    /\ stats.error_records = 1 /\ stats.successful_records = 2
    /\ Len(PersistEvs) = 2

\* C3 -- offset and chunk boundaries: with N loaded rows, offset o and chunk
\* size c > 0 the batches are the consecutive slices of the rows left after
\* the first o: batch k starts at (k-1)*c, every batch but the last has c
\* rows, the last has 1..c, every row is mapped inside its own batch, and a
\* completed run has processed ceil(max(N-o,0)/c) batches.
C3_OffsetAndChunks ==
    LET nb == Len(BatchEvs)
        lastBatchBefore(x) ==
            CHOOSE y \in 1..x : /\ calls[y].ev = "batch"
                                /\ \A z \in (y + 1)..x : calls[z].ev # "batch"
    IN  /\ pc \in {"loop", "rows", "insert", "persist", "finish", "Completed"} =>
              /\ Len(df) = RemainingCount
              /\ \A k \in 1..Len(df) : df[k] = file.rows[offset + k]
        /\ \A k \in 1..nb :
              /\ BatchEvs[k].at = (k - 1) * chunk_size
              /\ BatchEvs[k].size \in 1..chunk_size
              /\ BatchEvs[k].at + BatchEvs[k].size <= RemainingCount
              /\ k < nb => BatchEvs[k].size = chunk_size
        /\ \A x \in 1..Len(calls) :
              calls[x].ev = "row" =>
                 /\ \E y \in 1..x : calls[y].ev = "batch"
                 /\ calls[x].at >= calls[lastBatchBefore(x)].at
                 /\ calls[x].at < calls[lastBatchBefore(x)].at + calls[lastBatchBefore(x)].size
        /\ pc = "Completed" =>
              /\ nb = CeilDiv(RemainingCount, chunk_size)
              /\ nb > 0 => BatchEvs[nb].at + BatchEvs[nb].size = RemainingCount

\* C3 witness: 3 rows, offset 1, chunk size 1: two batches of one row each
\* have been processed (the slices [1:2] and [2:3] of the file)
C3_Witness ==
    /\ pc = "Completed"
    /\ Len(file.rows) = 3 /\ offset = 1 /\ chunk_size = 1
    /\ Len(BatchEvs) = 2
    /\ BatchEvs[2].at = 1 /\ BatchEvs[2].size = 1
    /\ Len(RowEvs) = 2

\* the run is given a file that is missing, that the reader fails on, or
\* that the validator rejects while validation is enabled
FatalInput ==
    \/ ~file.exists
    \/ ~file.readable
    \/ cfg.enable_validation /\ ~file.valid

\* C4 -- fatal load / validation failure: such a run never gets past
\* loading (so it cannot complete), has called neither the row mapper nor
\* the persister, and once it has failed the end time of the statistics is
\* stamped.
C4_FatalLoadFailure ==
    (pc # "idle" /\ FatalInput) =>
        /\ pc \in {"load", "except", "Failed"}
        /\ Len(RowEvs) = 0 /\ Len(PersistEvs) = 0 /\ Len(DedupeEvs) = 0
        /\ pc = "Failed" => Len(stats.end_time) = 1

\* C4 witness: a readable file of two rows that the validator rejects
C4_Witness ==
    /\ pc = "Failed"
    /\ file.exists /\ file.readable /\ ~file.valid /\ cfg.enable_validation
    /\ Len(file.rows) = 2
    /\ stats.total_input_records = 2
    /\ Len(stats.end_time) = 1

Terminal == pc \in {"Completed", "Failed"}

\* C5 -- termination: every run reaches Completed or Failed; a run whose
\* load and validation succeeded and whose chunk size is positive reaches
\* Completed, with the statistics finalized and the summary emitted,
\* whatever rows raise and whatever persister calls fail; a run ends Failed
\* only on a load or validation error or on the configured chunk size 0.
C5_RunTerminates ==
    /\ (pc = "load") ~> Terminal
    /\ (pc = "offset" /\ chunk_size > 0) ~> (pc = "Completed")
    /\ [](pc = "Failed" => (FatalInput \/ (chunk_size = 0 /\ cfg.chunk_size = 0)))
    /\ [](pc = "Completed" =>
            /\ Len(stats.end_time) = 1
            /\ Len(SelectSeq(calls, IsSummaryEv)) = 1)

\* C5 witness: a completed run in which a row raised and a persister call failed
C5_Witness ==
    /\ pc = "Completed"
    /\ stats.error_records > 0
    /\ stats.database_errors > 0
    /\ Len(stats.end_time) = 1

\* C7 -- duplicate-group accounting: duplicate_groups is the sum, over the
\* batches that reached intra-batch dedupe, of the number of conflict keys
\* that more than one transformed record of the batch has, and the batch
\* handed to the persister has one record per distinct conflict key of the
\* batch.
C7_DuplicateGroupAccounting ==
    LET batchOf(e) == TransformedRecords(e.at, SliceSize(e.at))
        repeated(e) == Cardinality(RepeatedKeys(batchOf(e), ConflictColumns))
    IN  /\ stats.duplicate_groups = SumOverEvents(DedupeEvs, repeated)
        /\ \A n \in 1..Len(PersistEvs) :
              Len(PersistEvs[n].records)
                 = Cardinality(KeysOf(batchOf(PersistEvs[n]), ConflictColumns))
        /\ pc = "persist" =>
              Len(deduped_data)
                 = Cardinality(KeysOf(TransformedRecords(i, SliceSize(i)), ConflictColumns))

\* C7 witness: a batch of N = 3 records with K = 2 distinct keys, one of
\* them repeated: one duplicate group, two records sent
C7_Witness ==
    /\ pc = "Completed"
    /\ chunk_size = 3 /\ offset = 0
    /\ stats.successful_records = 3
    /\ stats.duplicate_groups = 1
    /\ Len(PersistEvs) = 1
    /\ Len(PersistEvs[1].records) = 2

\* the number of records insert_batch sends to the persister for the batch
\* that starts at row at of the remaining rows: one per distinct conflict
\* key among the records its rows were mapped to
SentCount(at) ==
    Cardinality(KeysOf(TransformedRecords(at, SliceSize(at)), ConflictColumns))

\* C13 -- output count: when a run has ended, total_output_records is the
\* sum, over the batches whose persister call returned without error, of
\* the number of records sent to the persister for that batch (the size of
\* the deduplicated batch); a failed call adds nothing.
C13_OutputCount ==
    LET sentAt(e) == SentCount(e.at)
    IN  /\ \A n \in 1..Len(PersistEvs) :
              Len(PersistEvs[n].records) = SentCount(PersistEvs[n].at)
        /\ Terminal =>
              stats.total_output_records =
                  SumOverEvents(SelectSeq(calls, IsOkPersist), sentAt)

\* C13 witness: three records in two batches, two of them merged into one;
\* two persister calls of one record each
C13_Witness ==
    /\ pc = "Completed"
    /\ chunk_size = 2 /\ offset = 0
    /\ stats.successful_records = 3
    /\ stats.database_errors = 0
    /\ Len(PersistEvs) = 2
    /\ stats.total_output_records = 2

\* the start of the batch that row r of the remaining rows belongs to
BatchOf(r) == (r \div chunk_size) * chunk_size

\* the place of a call in a strictly sequential run: batches in input
\* order, and inside a batch its head, its rows in row order, its dedupe,
\* its persister call
Rank(e) ==
    IF e.ev = "batch" THEN e.at * (chunk_size + 3)
    ELSE IF e.ev = "row" THEN BatchOf(e.at) * (chunk_size + 3) + 1 + (e.at - BatchOf(e.at))
    ELSE IF e.ev = "dedupe" THEN e.at * (chunk_size + 3) + chunk_size + 1
    ELSE IF e.ev = "persist" THEN e.at * (chunk_size + 3) + chunk_size + 2
    ELSE (RemainingCount + chunk_size) * (chunk_size + 3)

\* the rows of the batch that starts at row at which were handed to the row
\* mapper among the first n calls
RowsDoneBefore(at, n) ==
    Cardinality({m \in 1..(n - 1) :
                    calls[m].ev = "row" /\ BatchOf(calls[m].at) = at})

\* C14 -- batch ordering: the calls of a run are strictly sequential and in
\* input order: batches (and so persister calls) in the order of the
\* remaining rows; every row of a batch is transformed before its dedupe,
\* the dedupe comes right before the persister call, and no row of a later
\* batch is transformed before the persister call of an earlier batch.
C14_BatchOrdering ==
    chunk_size > 0 =>
        /\ \A m, n \in 1..Len(calls) : m < n => Rank(calls[m]) < Rank(calls[n])
        /\ \A n \in 1..Len(calls) :
              /\ calls[n].ev = "batch" =>
                    /\ calls[n].at = (Len(SelectSeq(SubSeq(calls, 1, n), IsBatchEv)) - 1)
                                        * chunk_size
                    /\ n > 1 => calls[n - 1].ev \in {"row", "persist"}
                    /\ calls[n].at > 0 =>
                          RowsDoneBefore(calls[n].at - chunk_size, n) = chunk_size
              /\ calls[n].ev = "dedupe" =>
                    RowsDoneBefore(calls[n].at, n) = SliceSize(calls[n].at)
              /\ calls[n].ev = "persist" =>
                    /\ n > 1
                    /\ calls[n - 1].ev = "dedupe"
                    /\ calls[n - 1].at = calls[n].at
              /\ (calls[n].ev = "dedupe" /\ n < Len(calls)) =>
                    calls[n + 1].ev = "persist"

\* C14 witness: two batches, the persister call of the first failed, the
\* second batch was transformed and persisted after it
C14_Witness ==
    /\ pc = "Completed"
    /\ Len(BatchEvs) = 2
    /\ Len(RowEvs) = 3
    /\ Len(PersistEvs) = 2
    /\ ~PersistEvs[1].ok /\ PersistEvs[2].ok
    /\ PersistEvs[1].at = 0 /\ PersistEvs[2].at = 2

\* C15 -- no retry: the persister is called at most once per batch,
\* whatever max_retries is: no two persister calls of a run are for the
\* same batch, a failed call is followed only by calls for later batches,
\* and what a call carries are records of the rows of its own batch (one
\* per conflict key of that batch), never those of an earlier batch.
C15_NoRetry ==
    /\ \A m, n \in 1..Len(PersistEvs) :
          m < n => PersistEvs[m].at < PersistEvs[n].at
    /\ \A n \in 1..Len(PersistEvs) :
          LET e == PersistEvs[n]
              own == TransformedRecords(e.at, SliceSize(e.at))
          IN  /\ KeysOf(e.records, ConflictColumns) = KeysOf(own, ConflictColumns)
              /\ Len(e.records) = Cardinality(KeysOf(own, ConflictColumns))
    /\ stats.database_errors <= Len(BatchEvs)

\* C15 witness: max_retries is 3, the persister call of the second of three
\* batches failed, and the run made exactly one call per batch
C15_Witness ==
    /\ pc = "Completed"
    /\ cfg.max_retries = 3
    /\ chunk_size = 1
    /\ Len(BatchEvs) = 3
    /\ Len(PersistEvs) = 3
    /\ PersistEvs[1].ok /\ ~PersistEvs[2].ok /\ PersistEvs[3].ok
    /\ stats.database_errors = 1

\* how many of the rows handed to the row mapper so far satisfy P
RowsHandled(P(_)) ==
    Cardinality({k \in 1..Len(RowEvs) : P(file.rows[offset + k])})

OwnRecords(at) == TransformedRecords(at, SliceSize(at))

\* what deduplicate_records makes of the records of that batch alone
OwnDedupe(at) ==
    {DeduplicateRecords(OwnRecords(at), ConflictColumns, "merge", MergeRules,
                        order).deduped : order \in SetOrders(OwnRecords(at))}

\* the starts of the batches of the run, in order
BatchStarts ==
    [n \in 1..CeilDiv(RemainingCount, chunk_size) |-> (n - 1) * chunk_size]

\* C19 -- duplicate accounting is intra-batch only: what a persister call
\* carries is the dedupe of the records of its own batch alone, so records
\* with one conflict key in different batches are not merged and each is
\* sent; in a completed run a key is sent once for every batch it occurs
\* in, duplicate_groups counts only the keys repeated inside a batch, and
\* without persister failures total_output_records counts a key once per
\* batch it occurs in.
C19_IntraBatchOnly ==
    chunk_size > 0 =>
        LET hasRecords(at) == Len(OwnRecords(at)) > 0
            repeatedIn(at) == Cardinality(RepeatedKeys(OwnRecords(at), ConflictColumns))
            batchesWith(k) ==
                Cardinality({n \in 1..Len(BatchStarts) :
                    k \in KeysOf(OwnRecords(BatchStarts[n]), ConflictColumns)})
            callsWith(k) ==
                Cardinality({n \in 1..Len(PersistEvs) :
                    k \in KeysOf(PersistEvs[n].records, ConflictColumns)})
        IN  /\ \A n \in 1..Len(PersistEvs) :
                  PersistEvs[n].records \in OwnDedupe(PersistEvs[n].at)
            /\ pc = "Completed" =>
                  /\ \A k \in KeysOf(TransformedRecords(0, RemainingCount),
                                      ConflictColumns) :
                        callsWith(k) = batchesWith(k)
                  /\ stats.duplicate_groups = SumOverEvents(BatchStarts, repeatedIn)
                  /\ stats.database_errors = 0 =>
                        stats.total_output_records
                            = SumOverEvents(BatchStarts, SentCount)

\* C19 witness: two records with one conflict key in two batches of one
\* row: no duplicate group, both sent as they are
C19_Witness ==
    /\ pc = "Completed"
    /\ chunk_size = 1 /\ offset = 0
    /\ Len(file.rows) = 2
    /\ YieldsRecord(file.rows[1]) /\ YieldsRecord(file.rows[2])
    /\ file.rows[1].rec # file.rows[2].rec
    /\ CreateConflictKey(file.rows[1].rec, ConflictColumns)
          = CreateConflictKey(file.rows[2].rec, ConflictColumns)
    /\ stats.duplicate_groups = 0
    /\ stats.total_output_records = 2
    /\ PersistEvs[1].records = <<file.rows[1].rec>>
    /\ PersistEvs[2].records = <<file.rows[2].rec>>

\* C26 -- every row is accounted for exactly once: in a completed run of a
\* fresh importer each row left after the offset went to the row mapper
\* exactly once, in input order, and successful_records + skipped_records
\* + error_records is max(N - offset, 0), N being the number of rows read.
C26_EveryRowOnce ==
    LET N == Len(file.rows)
        left == IF N - offset > 0 THEN N - offset ELSE 0
    IN  /\ \A a, b \in 1..Len(RowEvs) : a < b => RowEvs[a].at < RowEvs[b].at
        /\ pc = "Completed" =>
              /\ chunk_size > 0
              /\ Len(df) = left
              /\ \A r \in 0..(left - 1) :
                    Cardinality({k \in 1..Len(RowEvs) : RowEvs[k].at = r}) = 1
              /\ \A k \in 1..Len(RowEvs) :
                    /\ RowEvs[k].at \in 0..(left - 1)
                    /\ RowEvs[k].out = df[RowEvs[k].at + 1].out
              /\ stats.successful_records + stats.skipped_records
                    + stats.error_records = left

\* C26 witness: offset 1 on three rows, of which the two left are a row
\* that raises and a row mapped to a record
C26_Witness ==
    /\ pc = "Completed"
    /\ offset = 1
    /\ Len(file.rows) = 3
    /\ file.rows[2].out = "raise"
    /\ YieldsRecord(file.rows[3])
    /\ Len(RowEvs) = 2
    /\ stats.error_records = 1
    /\ stats.successful_records = 1
    /\ stats.skipped_records = 0

\* C30 -- the persister is never called with an empty record list: a batch
\* in which no row produced a record causes no dedupe and no persister
\* call, leaves duplicate_groups, database_errors and total_output_records
\* unchanged, and the run goes on with the next batch.
C30_NoEmptyPersist ==
    /\ [](/\ \A n \in 1..Len(PersistEvs) :
                /\ Len(PersistEvs[n].records) > 0
                /\ Len(OwnRecords(PersistEvs[n].at)) > 0
          /\ \A n \in 1..Len(DedupeEvs) : Len(OwnRecords(DedupeEvs[n].at)) > 0
          /\ pc \in {"insert", "persist"} => Len(batch_records) > 0)
    /\ [][(pc = "rows" /\ pc' # "rows" /\ batch_records' = <<>>) =>
              /\ pc' = "loop"
              /\ i' = i + chunk_size
              /\ Len(calls') = Len(calls) + 1
              /\ IsRowEv(calls'[Len(calls')])
              /\ stats'.duplicate_groups = stats.duplicate_groups
              /\ stats'.database_errors = stats.database_errors
              /\ stats'.total_output_records = stats.total_output_records]_vars

\* C30 witness: batches of one row; the first two rows give no record, the
\* third does, and only the third batch reached the persister
C30_Witness ==
    /\ pc = "Completed"
    /\ chunk_size = 1
    /\ offset = 0
    /\ Len(file.rows) = 3
    /\ file.rows[1].out = "none"
    /\ file.rows[2].out = "raise"
    /\ YieldsRecord(file.rows[3])
    /\ Len(BatchEvs) = 3
    /\ Len(DedupeEvs) = 1
    /\ Len(PersistEvs) = 1
    /\ PersistEvs[1].at = 2
    /\ stats.total_output_records = 1

\* C27 -- total_output_records <= successful_records in every reachable
\* state of an importer, across batches, persister failures and repeated
\* runs: records are counted as output only after they were counted as
\* successful, and dedupe never adds records.
C27_OutputAtMostSuccessful ==
    /\ stats.total_output_records <= stats.successful_records
    /\ pc \in {"rows", "insert", "persist"} =>
          stats.total_output_records + Len(batch_records)
              <= stats.successful_records
    /\ pc = "persist" => Len(deduped_data) <= Len(batch_records)

\* C27 witness: a second run on the same importer has ended; over the two
\* runs a persister call failed and a dedupe merged records, so fewer
\* records were counted as output than as successful
C27_Witness ==
    /\ pc = "Completed"
    /\ now > 1
    /\ stats.database_errors > 0
    /\ stats.duplicate_groups > 0
    /\ stats.total_output_records > 0
    /\ stats.total_output_records < stats.successful_records

\* What a run with batches of c rows makes of the rows left after the
\* offset when no persister call fails: the chunk loop of run_import with
\* process_batch and insert_batch, as one fold over the batches.  The visit
\* order of the merge can only show in the order of a merged dict's keys,
\* which a table row does not have.
RECURSIVE RunWith(_, _, _)
RunWith(c, at, acc) ==
    IF at >= RemainingCount THEN acc
    ELSE LET n == IF RemainingCount - at < c THEN RemainingCount - at ELSE c
             recs == TransformedRecords(at, n)
             r == DeduplicateRecords(recs, ConflictColumns, "merge", MergeRules,
                                     CHOOSE o \in SetOrders(recs) : TRUE)
         IN  IF Len(recs) = 0
             THEN RunWith(c, at + c, acc)
             ELSE RunWith(c, at + c,
                     [store |-> BulkUpsertRecords(acc.store, r.deduped,
                                                  ConflictColumns),
                      duplicate_groups |-> acc.duplicate_groups + Len(r.dup),
                      total_output_records |->
                          acc.total_output_records + Len(r.deduped)])

ImportResult(c) ==
    RunWith(c, 0, [store |-> InitialStore, duplicate_groups |-> 0,
                   total_output_records |-> 0])

\* two tables hold the same rows
SameRows(a, b) ==
    /\ Len(a) = Len(b)
    /\ \A k \in 1..Len(a) :
          Cardinality({m \in 1..Len(a) : a[m] = a[k]})
              = Cardinality({m \in 1..Len(b) : b[m] = a[k]})

\* the run ended as a run with batches of c rows would have
SameResultAs(c) ==
    LET r == ImportResult(c)
    IN  /\ SameRows(store, r.store)
        /\ stats.duplicate_groups = r.duplicate_groups
        /\ stats.total_output_records = r.total_output_records

\* no two of the records the rows of the run are mapped to share a
\* conflict key
DistinctKeys ==
    LET all == TransformedRecords(0, RemainingCount)
    IN  \A a, b \in 1..Len(all) :
            a # b => CreateConflictKey(all[a], ConflictColumns)
                        # CreateConflictKey(all[b], ConflictColumns)

C11_StatsInvariant ==
    stats.successful_records + stats.skipped_records + stats.error_records
        <= stats.total_input_records

\* C12 -- statistics lifecycle: a call of run_import starts on fresh
\* statistics: every counter is zero and the end time is not yet stamped,
\* so nothing of an earlier run is carried over and the end time is
\* stamped once per statistics object.
C12_FreshStatsPerRun ==
    pc = "load" =>
        /\ stats.total_input_records = 0
        /\ stats.total_output_records = 0
        /\ stats.successful_records = 0
        /\ stats.skipped_records = 0
        /\ stats.error_records = 0
        /\ stats.duplicate_groups = 0
        /\ stats.validation_errors = 0
        /\ stats.database_errors = 0
        /\ Len(stats.end_time) = 0

-----------------------------------------------------------------------------
(* One call of deduplicate_records on bounded inputs.                      *)

\* records of the engine runs: a key part followed by a payload.  "a" and
\* " A" are two spellings of one conflict key, "b" is another key.
SameKeyParts ==
    { <<<<"barcode", Str(<<"a">>)>>>>,
      <<<<"barcode", Str(<<" ", "A">>)>>>> }

OtherKeyPart == <<<<"barcode", Str(<<"b">>)>>>>

DedupPayloads ==
    { <<<<"quantity", Num(3)>>>>,
      <<<<"quantity", Num(5)>>>>,
      <<<<"quantity", NaN>>>>,
      <<<<"quantity", None>>>>,
      <<<<"priority_field", Num(2)>>>> }

\* records whose priority field is there without a number in it
NullPriorityRecords ==
    { << <<"barcode", Str(<<"a">>)>>, <<"priority_field", NaN>> >>,
      << <<"barcode", Str(<<"a">>)>>, <<"priority_field", None>> >> }

DedupRecords ==
    {k \o p : k \in SameKeyParts, p \in DedupPayloads}
    \cup {OtherKeyPart \o <<<<"quantity", Num(3)>>>>,
          OtherKeyPart \o <<<<"quantity", NaN>>>>}
    \cup NullPriorityRecords

\* the merge rules tried: none, or one mode for quantity
DedupRules == {<<>>} \cup {<<<<"quantity", m>>>> : m \in FieldMergeMode}

\* strategy and rules of a call; the rules are read by strategy merge only
DedupArgs ==
    {[records |-> <<>>, columns |-> <<"barcode">>, strategy |-> "merge", rules |-> m] :
        m \in DedupRules}
    \cup
    {[records |-> <<>>, columns |-> <<"barcode">>, strategy |-> st, rules |-> <<>>] :
        st \in MergeStrategy \ {"merge"}}

\* the importer is not used by the engine runs
ImporterIdle ==
    /\ stats = ProcessingStats(0) /\ now = 1
    /\ cfg = [chunk_size |-> 0, max_retries |-> 3, enable_validation |-> TRUE]
    /\ file = [exists |-> FALSE, readable |-> FALSE, valid |-> FALSE, rows |-> <<>>]
    /\ pc = "engine"
    /\ chunk_size = 0 /\ offset = 0 /\ df = <<>> /\ i = 0 /\ j = 0
    /\ batch_records = <<>> /\ deduped_data = <<>> /\ calls = <<>>
    /\ store = <<>>
    /\ ProductIdle

InitDedup ==
    /\ ImporterIdle
    /\ d_in \in DedupArgs
    /\ d_out = [done |-> FALSE, raised |-> FALSE, deduped |-> <<>>, dup |-> <<>>]

\* the caller builds the record list
AddRecord ==
    /\ pc = "engine"
    /\ ~d_out.done /\ ~d_out.raised
    /\ Len(d_in.records) < MaxRecs
    /\ \E r \in DedupRecords : d_in' = [d_in EXCEPT !.records = Append(@, r)]
    /\ UNCHANGED <<d_out, importerVars, productVars>>

\* the call deduplicate_records(records, conflict_columns, strategy, merge_rules)
Deduplicate ==
    /\ pc = "engine"
    /\ ~d_out.done /\ ~d_out.raised
    /\ IF DeduplicateRaises(d_in.records, d_in.columns, d_in.strategy)
       THEN d_out' = [done |-> FALSE, raised |-> TRUE, deduped |-> <<>>, dup |-> <<>>]
       ELSE \E order \in SetOrders(d_in.records) :
               LET r == DeduplicateRecords(d_in.records, d_in.columns,
                                           d_in.strategy, d_in.rules, order)
               IN  d_out' = [done |-> TRUE, raised |-> FALSE,
                             deduped |-> r.deduped, dup |-> r.dup]
    /\ UNCHANGED <<d_in, importerVars, productVars>>

NextDedup == AddRecord \/ Deduplicate

SpecDedup == InitDedup /\ [][NextDedup]_vars

-----------------------------------------------------------------------------
(* Claims on the engine.                                                   *)

KeyIn(r) == CreateConflictKey(r, d_in.columns)

\* the input records that have conflict key k, in input order
GroupOf(k) ==
    LET hasKey(r) == KeyIn(r) = k
    IN  SelectSeq(d_in.records, hasKey)

\* the output record that has conflict key k
OutputFor(k) ==
    d_out.deduped[CHOOSE n \in 1..Len(d_out.deduped) : KeyIn(d_out.deduped[n]) = k]

\* the values of field f in the records of g, as _merge_records gathers them
ValuesOf(g, f) == [n \in 1..Len(g) |-> Get(g[n], f)]

IsNum(v) == v.t = "num"

\* the integers among the values
IntsOf(values) ==
    LET nums == SelectSeq(values, IsNum)
    IN  [n \in 1..Len(nums) |-> nums[n].num]

SeqRange(q) == {q[n] : n \in 1..Len(q)}

\* the groups of more than one record, by key
RepeatedInput == RepeatedKeys(d_in.records, d_in.columns)

\* C6 -- deduplicate_records returns exactly one record per distinct
\* conflict key of its input, for every strategy: as many records as there
\* are distinct keys, never more than the input, and every key of the input
\* is the key of exactly one output record.
C6_OneRecordPerKey ==
    d_out.done =>
        LET keys == KeysOf(d_in.records, d_in.columns)
        IN  /\ Len(d_out.deduped) = Cardinality(keys)
            /\ Len(d_out.deduped) <= Len(d_in.records)
            /\ \A k \in keys :
                  Cardinality({n \in 1..Len(d_out.deduped) :
                                  KeyIn(d_out.deduped[n]) = k}) = 1

\* C6 witness: three records, the first and the third with one key, resolved
\* by keep_max to two records
C6_Witness ==
    /\ d_out.done
    /\ d_in.strategy = "keep_max"
    /\ Len(d_in.records) = 3
    /\ KeyIn(d_in.records[1]) = KeyIn(d_in.records[3])
    /\ KeyIn(d_in.records[1]) # KeyIn(d_in.records[2])
    /\ Len(d_out.deduped) = 2

\* the position in the input of the first record that has conflict key k
FirstIndex(k) ==
    CHOOSE n \in 1..Len(d_in.records) :
        /\ KeyIn(d_in.records[n]) = k
        /\ \A m \in 1..(n - 1) : KeyIn(d_in.records[m]) # k

\* C17 -- output order: the output of deduplicate_records is in grouping
\* order: its records follow the order in which their conflict keys first
\* occur in the input, wherever in the input the record kept for a key is.
C17_GroupingOrder ==
    d_out.done =>
        \A a, b \in 1..Len(d_out.deduped) :
            a < b => FirstIndex(KeyIn(d_out.deduped[a]))
                        < FirstIndex(KeyIn(d_out.deduped[b]))

\* C17 witness: strategy last keeps the third record for the key of the
\* first; it comes out before the second record
C17_Witness ==
    /\ d_out.done
    /\ d_in.strategy = "last"
    /\ Len(d_in.records) = 3
    /\ KeyIn(d_in.records[1]) = KeyIn(d_in.records[3])
    /\ KeyIn(d_in.records[1]) # KeyIn(d_in.records[2])
    /\ d_in.records[1] # d_in.records[3]
    /\ d_out.deduped = <<d_in.records[3], d_in.records[2]>>

\* C18 -- selection strategies: for every duplicate group, strategy first
\* returns the first record of the group, strategy last its last record,
\* and strategy keep_max a record of the group whose priority field (0 when
\* absent) is the greatest of the group; the record returned is one of the
\* records of the group, unchanged.
C18_SelectionStrategies ==
    (pc = "engine" /\ (d_out.done \/ d_out.raised)
        /\ d_in.strategy \in {"first", "last", "keep_max"}) =>
        /\ d_out.done
        /\ \A k \in RepeatedInput :
              LET g == GroupOf(k)
                  out == OutputFor(k)
                  atMost(a, b) ==
                      a.t = "num" /\ b.t = "num" /\ ~NumLess(b, a)
              IN  /\ \E n \in 1..Len(g) : out = g[n]
                  /\ d_in.strategy = "first" => out = g[1]
                  /\ d_in.strategy = "last" => out = g[Len(g)]
                  /\ d_in.strategy = "keep_max" =>
                        \A n \in 1..Len(g) : atMost(Priority(g[n]), Priority(out))

\* the positions (from 0) of the input records that have conflict key k
PositionsOf(k) ==
    {n - 1 : n \in {m \in 1..Len(d_in.records) : KeyIn(d_in.records[m]) = k}}

\* C20 -- duplicates report: the report returned by deduplicate_records has
\* one entry for every conflict key that more than one input record has and
\* no other entry (no key of a group of one); the entry of a key lists the
\* (position, record) pairs of all input records with that key, in
\* increasing position; the output list has one record per group whether
\* the group is in the report or not.
C20_DuplicatesReport ==
    d_out.done =>
        /\ {d_out.dup[n].key : n \in 1..Len(d_out.dup)} = RepeatedInput
        /\ Len(d_out.dup) = Cardinality(RepeatedInput)
        /\ \A n \in 1..Len(d_out.dup) :
              LET items == d_out.dup[n].items
                  k == d_out.dup[n].key
              IN  /\ Len(items) > 1
                  /\ {items[m][1] : m \in 1..Len(items)} = PositionsOf(k)
                  /\ Len(items) = Cardinality(PositionsOf(k))
                  /\ \A m \in 1..Len(items) :
                        items[m][2] = d_in.records[items[m][1] + 1]
                  /\ \A a, b \in 1..Len(items) :
                        a < b => items[a][1] < items[b][1]
        /\ Len(d_out.deduped)
              = Cardinality(KeysOf(d_in.records, d_in.columns))

\* C20 witness: the first and the third of three records share a key: the
\* report has that key only, with positions 0 and 2
C20_Witness ==
    /\ d_out.done
    /\ d_in.strategy = "first"
    /\ Len(d_in.records) = 3
    /\ KeyIn(d_in.records[1]) = KeyIn(d_in.records[3])
    /\ KeyIn(d_in.records[1]) # KeyIn(d_in.records[2])
    /\ d_out.dup = << [key |-> KeyIn(d_in.records[1]),
                       items |-> << <<0, d_in.records[1]>>,
                                    <<2, d_in.records[3]>> >>] >>
    /\ Len(d_out.deduped) = 2

\* the last value that is not None, or None when no value is left once None
\* and NaN are dropped
ExpectedLast(values) ==
    IF \A n \in 1..Len(values) : IsNone(values[n]) \/ IsNaN(values[n])
    THEN None
    ELSE values[CHOOSE n \in 1..Len(values) :
                    /\ ~IsNone(values[n])
                    /\ \A m \in (n + 1)..Len(values) : IsNone(values[m])]

\* the sum of the numbers among the values, None when there is none
ExpectedSum(values) ==
    IF Len(IntsOf(values)) = 0 THEN None ELSE Num(SumInts(IntsOf(values)))

\* C8 -- merge correctness: under strategy merge, in the record resolved
\* from a group of records sharing a conflict key, a field with rule sum
\* holds the sum of the group's values, a field with rule last holds the
\* value of the last record of the group that has one, and a field with no
\* rule holds what rule last gives.
C8_MergeCorrectness ==
    (d_out.done /\ d_in.strategy = "merge") =>
        \A k \in RepeatedInput :
            \A f \in AllFields(GroupOf(k)) :
                LET values == ValuesOf(GroupOf(k), f)
                    got == Get(OutputFor(k), f)
                IN  /\ HasField(OutputFor(k), f)
                    /\ GetOr(d_in.rules, f, "none") = "sum" => got = ExpectedSum(values)
                    /\ GetOr(d_in.rules, f, "none") \in {"last", "none"} =>
                          got = ExpectedLast(values)

\* C8 witness: {quantity: 3} and {quantity: 5} with one key and rule sum
\* resolve to quantity 8
C8_Witness ==
    /\ d_out.done
    /\ d_in.strategy = "merge"
    /\ d_in.rules = << <<"quantity", "sum">> >>
    /\ Len(d_in.records) = 2
    /\ Get(d_in.records[1], "quantity") = Num(3)
    /\ Get(d_in.records[2], "quantity") = Num(5)
    /\ Len(d_out.deduped) = 1
    /\ Get(d_out.deduped[1], "quantity") = Num(8)

\* C9 -- null filtering in merge: sum, max, min and avg are computed over
\* the values of the group that are neither None nor NaN, and in every mode
\* a field whose values in the group are all None, NaN or absent resolves
\* to None (not to 0).
C9_NullFiltering ==
    (d_out.done /\ d_in.strategy = "merge") =>
        \A k \in RepeatedInput :
            \A f \in AllFields(GroupOf(k)) :
                LET values == ValuesOf(GroupOf(k), f)
                    ints == IntsOf(values)
                    mode == GetOr(d_in.rules, f, "last")
                    got == Get(OutputFor(k), f)
                IN  /\ (\A n \in 1..Len(values) : IsNone(values[n]) \/ IsNaN(values[n]))
                          => got = None
                    /\ (Len(ints) > 0 /\ mode = "sum") => got = Num(SumInts(ints))
                    /\ (Len(ints) > 0 /\ mode = "max") =>
                          /\ got.t = "num" /\ got.den = 1
                          /\ got.num \in SeqRange(ints)
                          /\ \A x \in SeqRange(ints) : x <= got.num
                    /\ (Len(ints) > 0 /\ mode = "min") =>
                          /\ got.t = "num" /\ got.den = 1
                          /\ got.num \in SeqRange(ints)
                          /\ \A x \in SeqRange(ints) : x >= got.num
                    /\ (Len(ints) > 0 /\ mode = "avg") =>
                          /\ got.t = "num"
                          /\ got.num * Len(ints) = SumInts(ints) * got.den

\* C9 witness: a group whose quantity is NaN, None and absent, rule sum:
\* the resolved quantity is None
C9_Witness ==
    /\ d_out.done
    /\ d_in.strategy = "merge"
    /\ d_in.rules = << <<"quantity", "sum">> >>
    /\ Len(d_in.records) = 3
    /\ Len(d_out.deduped) = 1
    /\ Get(d_in.records[1], "quantity") = NaN
    /\ ~HasField(d_in.records[2], "quantity")
    /\ HasField(d_in.records[3], "quantity")
    /\ Get(d_in.records[3], "quantity") = None
    /\ HasField(d_out.deduped[1], "quantity")
    /\ Get(d_out.deduped[1], "quantity") = None

\* C23 -- merge modes first and last: when at least one value of the group
\* is neither None nor NaN, mode first gives the first and mode last the
\* last of the group's values, in group order, that is not None; the values
\* are the raw ones, so the value given can be NaN.
C23_FirstLastRaw ==
    (d_out.done /\ d_in.strategy = "merge") =>
        \A k \in RepeatedInput :
            \A f \in AllFields(GroupOf(k)) :
                LET values == ValuesOf(GroupOf(k), f)
                    mode == GetOr(d_in.rules, f, "last")
                    got == Get(OutputFor(k), f)
                    isFirst(n) ==
                        /\ ~IsNone(values[n])
                        /\ \A m \in 1..(n - 1) : IsNone(values[m])
                    isLast(n) ==
                        /\ ~IsNone(values[n])
                        /\ \A m \in (n + 1)..Len(values) : IsNone(values[m])
                IN  (\E n \in 1..Len(values) : NotNull(values[n])) =>
                        /\ mode = "first" =>
                              \E n \in 1..Len(values) : isFirst(n) /\ got = values[n]
                        /\ mode = "last" =>
                              \E n \in 1..Len(values) : isLast(n) /\ got = values[n]

\* C23 witness: quantities None, NaN and 3 in one group under rule first:
\* the merged quantity is NaN
C23_Witness ==
    /\ d_out.done
    /\ d_in.strategy = "merge"
    /\ d_in.rules = << <<"quantity", "first">> >>
    /\ Len(d_in.records) = 3
    /\ Len(d_out.deduped) = 1
    /\ Get(d_in.records[1], "quantity") = None
    /\ Get(d_in.records[2], "quantity") = NaN
    /\ Get(d_in.records[3], "quantity") = Num(3)
    /\ Get(d_out.deduped[1], "quantity") = NaN

-----------------------------------------------------------------------------
(* Conflict keys of two records, over strings with upper and lower case    *)
(* letters and blanks.                                                     *)

MaxStrLen == 2

KeyChars == {"a", "A", " "}

\* the strings over KeyChars of length 0..n
RECURSIVE StringsUpTo(_)
StringsUpTo(n) ==
    IF n = 0 THEN {<<>>}
    ELSE StringsUpTo(n - 1)
            \cup {Append(q, c) : q \in StringsUpTo(n - 1), c \in KeyChars}

BarcodeFields ==
    {<<"barcode", v>> : v \in {Str(q) : q \in StringsUpTo(MaxStrLen)} \cup {None, NaN}}

BrandFields ==
    {<<"brand_id", Str(<<"b">>)>>, <<"brand_id", Str(<<"B", " ">>)>>}

\* records with none, one or both of the key fields, in either order
KeyRecords ==
    {<<>>}
    \cup {<<x>> : x \in BarcodeFields \cup BrandFields}
    \cup {<<x, y>> : x \in BarcodeFields, y \in BrandFields}
    \cup {<<y, x>> : x \in BarcodeFields, y \in BrandFields}

InitKey ==
    /\ ImporterIdle
    /\ \E st \in MergeStrategy :
          d_in = [records |-> <<>>, columns |-> <<"barcode", "brand_id">>,
                  strategy |-> st, rules |-> <<>>]
    /\ d_out = [done |-> FALSE, raised |-> FALSE, deduped |-> <<>>, dup |-> <<>>]

\* the caller builds a list of two records
AddKeyRecord ==
    /\ pc = "engine"
    /\ ~d_out.done
    /\ Len(d_in.records) < 2
    /\ \E r \in KeyRecords : d_in' = [d_in EXCEPT !.records = Append(@, r)]
    /\ UNCHANGED <<d_out, importerVars, productVars>>

NextKey == AddKeyRecord \/ Deduplicate

SpecKey == InitKey /\ [][NextKey]_vars

\* two values that differ at most in letter case and in leading and
\* trailing blanks
NormalisedEq(v1, v2) ==
    IF v1.t = "str" /\ v2.t = "str"
    THEN Lower(Strip(v1.s)) = Lower(Strip(v2.s))
    ELSE v1 = v2

\* C10 -- conflict-key normalisation: two records whose values on every key
\* field differ at most in letter case and in leading / trailing blanks,
\* wherever the fields stand in the record, have equal conflict keys and
\* are put in one duplicate group by deduplicate_records.
C10_KeyNormalisation ==
    (d_out.done /\ Len(d_in.records) = 2) =>
        ((\A n \in 1..Len(d_in.columns) :
             NormalisedEq(Get(d_in.records[1], d_in.columns[n]),
                          Get(d_in.records[2], d_in.columns[n])))
         => /\ KeyIn(d_in.records[1]) = KeyIn(d_in.records[2])
            /\ Len(d_out.deduped) = 1
            /\ Len(d_out.dup) = 1)

\* C24 -- null-coalescing of conflict keys: a key field that is absent,
\* None, NaN, the empty string or a string of blanks only gives the key
\* component None, so records that differ only in which of these they
\* carry have one conflict key.
C24_NullCoalescing ==
    LET isNull(v) ==
            IsNone(v) \/ IsNaN(v) \/ (v.t = "str" /\ Len(Strip(v.s)) = 0)
    IN  /\ \A n \in 1..Len(d_in.records) :
              \A c \in 1..Len(d_in.columns) :
                  isNull(Get(d_in.records[n], d_in.columns[c]))
                      => KeyIn(d_in.records[n])[c] = None
        /\ (d_out.done /\ Len(d_in.records) = 2) =>
              ((\A c \in 1..Len(d_in.columns) :
                    LET v1 == Get(d_in.records[1], d_in.columns[c])
                        v2 == Get(d_in.records[2], d_in.columns[c])
                    IN  (isNull(v1) /\ isNull(v2)) \/ v1 = v2)
               => Len(d_out.deduped) = 1)

\* the conflict keys of the input in order of first occurrence
RECURSIVE KeysInOrder(_)
KeysInOrder(n) ==
    IF n = 0 THEN <<>>
    ELSE LET k == KeyIn(d_in.records[n])
             seen(x) == x = k
         IN  IF Len(SelectSeq(KeysInOrder(n - 1), seen)) > 0
             THEN KeysInOrder(n - 1)
             ELSE Append(KeysInOrder(n - 1), k)

\* C25 -- dedupe is idempotent (the key fields have no merge rule, so they
\* are merged by last): the records returned have pairwise distinct
\* conflict keys, the n-th of them has the conflict key of the n-th group,
\* and deduplicate_records applied to the output returns the same records
\* in the same order, with an empty duplicates report.
C25_DedupeIdempotent ==
    d_out.done =>
        /\ \A a, b \in 1..Len(d_out.deduped) :
              a # b => KeyIn(d_out.deduped[a]) # KeyIn(d_out.deduped[b])
        /\ [n \in 1..Len(d_out.deduped) |-> KeyIn(d_out.deduped[n])]
              = KeysInOrder(Len(d_in.records))
        /\ ~DeduplicateRaises(d_out.deduped, d_in.columns, d_in.strategy)
        /\ \A order \in SetOrders(d_out.deduped) :
              DeduplicateRecords(d_out.deduped, d_in.columns, d_in.strategy,
                                 d_in.rules, order)
                  = [deduped |-> d_out.deduped, dup |-> <<>>]

\* C25 witness: a merge of three records, two spellings of one key among
\* them, that returned two records
C25_Witness ==
    /\ d_out.done
    /\ d_in.strategy = "merge"
    /\ d_in.rules = << <<"quantity", "sum">> >>
    /\ Len(d_in.records) = 3
    /\ Get(d_in.records[1], "barcode") # Get(d_in.records[3], "barcode")
    /\ KeyIn(d_in.records[1]) = KeyIn(d_in.records[3])
    /\ KeyIn(d_in.records[1]) # KeyIn(d_in.records[2])
    /\ Len(d_out.deduped) = 2
    /\ Get(d_out.deduped[1], "barcode") = Get(d_in.records[3], "barcode")

-----------------------------------------------------------------------------
(* FieldNormalizer.normalize_string on None, NaN, ints and strings put     *)
(* together from the null tokens in several spellings, blanks and a        *)
(* letter.                                                                 *)

MaxPieces == 3

\* the list normalize_string looks the stripped text up in
NullTokens == {<<>>, <<"0">>, <<"n", "a", "n">>, <<"n", "u", "l", "l">>}

\* FieldNormalizer.normalize_string
NormalizeString(val) ==
    IF IsNone(val) \/ IsNaN(val) THEN Str(<<>>)
    ELSE IF Strip(ToStr(val)) \in NullTokens THEN Str(<<>>)
    ELSE Str(Strip(ToStr(val)))

StringPieces ==
    {<<"n", "a", "n">>, <<"N", "a", "N">>, <<"n", "u", "l", "l">>,
     <<"N", "U", "L", "L">>, <<"0">>, <<" ">>, <<"a">>}

InitNorm ==
    /\ ImporterIdle
    /\ \E v \in {None, NaN, Num(0), Num(7), Str(<<>>)} :
          d_in = [val |-> v, pieces |-> 0]
    /\ d_out = [done |-> FALSE, result |-> Str(<<>>)]

\* the caller's string gets longer
AppendPiece ==
    /\ pc = "engine"
    /\ ~d_out.done
    /\ d_in.val.t = "str"
    /\ d_in.pieces < MaxPieces
    /\ \E q \in StringPieces :
          d_in' = [val |-> Str(d_in.val.s \o q), pieces |-> d_in.pieces + 1]
    /\ UNCHANGED <<d_out, importerVars, productVars>>

\* the call normalize_string(val)
Normalize ==
    /\ pc = "engine"
    /\ ~d_out.done
    /\ d_out' = [done |-> TRUE, result |-> NormalizeString(d_in.val)]
    /\ UNCHANGED <<d_in, importerVars, productVars>>

NextNorm == AppendPiece \/ Normalize

SpecNorm == InitNorm /\ [][NextNorm]_vars

\* C21 -- normalize_string: the result is the empty string for None and
\* NaN and for every input whose stripped text, compared without regard to
\* letter case, is one of "", "0", "nan", "null"; for every other input it
\* is the stripped text.
C21_NormalizeString ==
    d_out.done =>
        d_out.result =
            (IF IsNone(d_in.val) \/ IsNaN(d_in.val) THEN Str(<<>>)
             ELSE IF Lower(Strip(ToStr(d_in.val))) \in NullTokens THEN Str(<<>>)
             ELSE Str(Strip(ToStr(d_in.val))))

-----------------------------------------------------------------------------
(* ProductImporter: the row mapper with its two cached lookups, called by  *)
(* the loop of process_batch.  Of the fields of a product row the model    *)
(* keeps the ones the control flow of process_row depends on.              *)

MaxProductRows == 2

\* the item name process_row refuses
DeletedItem ==
    Str(<<"D", "e", "l", "e", "t", "e", "d", " ", "I", "t", "e", "m">>)

\* the id of the row of a dimension table
IdOf(table, key) == [t |-> "id", table |-> table, of |-> key]

\* the store call of a row that raises: none (0), or the n-th one made
StoreFaults == 0..6

\* Python truthiness of a cell
Falsy(v) ==
    \/ IsNone(v)
    \/ (v.t = "str" /\ Len(v.s) = 0)
    \/ (v.t = "num" /\ v.num = 0)

\* mutant: the cache is not consulted
GetOrCreateUncached(cache, rows, table, key, n, fail_at) ==
    LET call(op) == [ev |-> op, table |-> table, key |-> key]
        ret(id) == [ev |-> "return", table |-> table, key |-> key, id |-> id]
        failed(log, k, r) ==
            [id |-> None, cache |-> cache, rows |-> r, n |-> k,
             log |-> Append(log, ret(None))]
        cached(log, k, r) ==
            LET id == IF key \in r THEN IdOf(table, key) ELSE None
            IN  [id |-> id, cache |-> SetField(cache, key, id), rows |-> r,
                 n |-> k, log |-> Append(log, ret(id))]
    IN  IF n + 1 = fail_at
        THEN failed(<<call("listOne")>>, n + 1, rows)
        ELSE IF key \in rows
        THEN cached(<<call("listOne")>>, n + 1, rows)
        ELSE IF n + 2 = fail_at
        THEN failed(<<call("listOne"), call("upsertRecord")>>, n + 2, rows)
        ELSE IF n + 3 = fail_at
        THEN failed(<<call("listOne"), call("upsertRecord"), call("listOne")>>,
                    n + 3, rows \cup {key})
        ELSE cached(<<call("listOne"), call("upsertRecord"), call("listOne")>>,
                    n + 3, rows \cup {key})

\* The body both get_or_create_item_name and get_or_create_brand have after
\* the key is made: the cache, then listOne, upsertRecord and listOne again
\* for a row that is not there, then the cache entry.  An exception of a
\* store call ends the lookup with None and no cache entry; what upsertRecord
\* committed before stays.  n counts the store calls of the row so far.
GetOrCreate(cache, rows, table, key, n, fail_at) ==
    LET call(op) == [ev |-> op, table |-> table, key |-> key]
        ret(id) == [ev |-> "return", table |-> table, key |-> key, id |-> id]
        failed(log, k, r) ==
            [id |-> None, cache |-> cache, rows |-> r, n |-> k,
             log |-> Append(log, ret(None))]
        cached(log, k, r) ==
            LET id == IF key \in r THEN IdOf(table, key) ELSE None
            IN  [id |-> id, cache |-> SetField(cache, key, id), rows |-> r,
                 n |-> k, log |-> Append(log, ret(id))]
    IN  IF HasField(cache, key)
        THEN [id |-> Get(cache, key), cache |-> cache, rows |-> rows, n |-> n,
              log |-> <<ret(Get(cache, key))>>]
        ELSE IF n + 1 = fail_at
        THEN failed(<<call("listOne")>>, n + 1, rows)
        ELSE IF key \in rows
        THEN cached(<<call("listOne")>>, n + 1, rows)
        ELSE IF n + 2 = fail_at
        THEN failed(<<call("listOne"), call("upsertRecord")>>, n + 2, rows)
        ELSE IF n + 3 = fail_at
        THEN failed(<<call("listOne"), call("upsertRecord"), call("listOne")>>,
                    n + 3, rows \cup {key})
        ELSE cached(<<call("listOne"), call("upsertRecord"), call("listOne")>>,
                    n + 3, rows \cup {key})

\* a lookup that returns before it has a key
NoLookup(cache, rows, n) ==
    [id |-> None, cache |-> cache, rows |-> rows, n |-> n, log |-> <<>>]

\* get_or_create_item_name; clean_item_name strips the name, and raises
\* AttributeError on a cell that is not a string
ItemNameRaises(item_name_raw) ==
    /\ ~Falsy(item_name_raw)
    /\ item_name_raw.t # "str"

GetOrCreateItemName(item_name_raw, cache, rows, n, fail_at) ==
    IF Falsy(item_name_raw) \/ item_name_raw = DeletedItem
    THEN NoLookup(cache, rows, n)
    ELSE GetOrCreate(cache, rows, "item_names", Str(Strip(item_name_raw.s)),
                     n, fail_at)

\* get_or_create_brand: a missing or non-string brand is the brand 'NA'
GetOrCreateBrand(brand_name, cache, rows, n, fail_at) ==
    LET name == IF Falsy(brand_name) \/ brand_name.t # "str"
                THEN Str(<<"N", "A">>)
                ELSE brand_name
    IN  GetOrCreate(cache, rows, "brands", name, n, fail_at)

\* FieldNormalizer.parse_numeric and parse_integer on a missing or numeric
\* cell
ParseNumeric(val, default) ==
    IF IsNone(val) \/ IsNaN(val) THEN default ELSE val

\* ProductModel.__post_init__ raises ValueError
ProductModelRaises(item_name_id, brand_id, mrp, current_stock) ==
    \/ IsNone(item_name_id)
    \/ IsNone(brand_id)
    \/ NumLess(mrp, Num(0))
    \/ NumLess(current_stock, Num(0))

\* ProductModel.to_dict
ProductToDict(item_name_id, brand_id, mrp, current_stock) ==
    << <<"item_name_id", item_name_id>>, <<"brand_id", brand_id>>,
       <<"mrp", mrp>>, <<"current_stock", current_stock>> >>

\* mutant: process_row has no try, its exceptions reach process_batch
ProductProcessRowUncaught(row, fail_at, inc, bc, d) ==
    LET same == [item_name_cache |-> inc, brand_cache |-> bc, dims |-> d]
    IN  IF ItemNameRaises(row.item_name)
        THEN same @@ [out |-> "raise", rec |-> <<>>, log |-> <<>>]
        ELSE
        LET r1 == GetOrCreateItemName(row.item_name, inc, d.item_names, 0, fail_at)
            d1 == [d EXCEPT !.item_names = r1.rows]
        IN  IF IsNone(r1.id)
            THEN [out |-> "none", rec |-> <<>>, log |-> r1.log,
                  item_name_cache |-> r1.cache, brand_cache |-> bc, dims |-> d1]
            ELSE
            LET r2 == GetOrCreateBrand(row.brand, bc, d.brands, r1.n, fail_at)
                d2 == [d1 EXCEPT !.brands = r2.rows]
                mrp == ParseNumeric(row.mrp, Num(0))
                current_stock == ParseNumeric(row.current_stock, Num(0))
                after == [log |-> r1.log \o r2.log, item_name_cache |-> r1.cache,
                          brand_cache |-> r2.cache, dims |-> d2]
            IN  IF IsNone(r2.id)
                THEN after @@ [out |-> "none", rec |-> <<>>]
                ELSE IF ProductModelRaises(r1.id, r2.id, mrp, current_stock)
                THEN after @@ [out |-> "raise", rec |-> <<>>]
                ELSE after @@ [out |-> "record",
                               rec |-> ProductToDict(r1.id, r2.id, mrp,
                                                     current_stock)]

\* ProductImporter.process_row: what it returns (a record or None), the
\* store calls and lookup results in order, and the caches and dimension
\* tables afterwards.  Every exception raised inside ends in return None.
ProductProcessRow(row, fail_at, inc, bc, d) ==
    LET same == [item_name_cache |-> inc, brand_cache |-> bc, dims |-> d]
    IN  IF ItemNameRaises(row.item_name)
        THEN same @@ [out |-> "none", rec |-> <<>>, log |-> <<>>]
        ELSE
        LET r1 == GetOrCreateItemName(row.item_name, inc, d.item_names, 0, fail_at)
            d1 == [d EXCEPT !.item_names = r1.rows]
        IN  IF IsNone(r1.id)
            THEN [out |-> "none", rec |-> <<>>, log |-> r1.log,
                  item_name_cache |-> r1.cache, brand_cache |-> bc, dims |-> d1]
            ELSE
            LET r2 == GetOrCreateBrand(row.brand, bc, d.brands, r1.n, fail_at)
                d2 == [d1 EXCEPT !.brands = r2.rows]
                mrp == ParseNumeric(row.mrp, Num(0))
                current_stock == ParseNumeric(row.current_stock, Num(0))
                after == [log |-> r1.log \o r2.log, item_name_cache |-> r1.cache,
                          brand_cache |-> r2.cache, dims |-> d2]
            IN  IF IsNone(r2.id)
                THEN after @@ [out |-> "none", rec |-> <<>>]
                ELSE IF ProductModelRaises(r1.id, r2.id, mrp, current_stock)
                THEN after @@ [out |-> "none", rec |-> <<>>]
                ELSE after @@ [out |-> "record",
                               rec |-> ProductToDict(r1.id, r2.id, mrp,
                                                     current_stock)]

\* the cells of the rows of a product file
ProductRows ==
    {[item_name |-> n, brand |-> b, mrp |-> a[1], current_stock |-> a[2]] :
        n \in {None, NaN, DeletedItem, Str(<<"x">>), Str(<<" ", "x">>),
               Str(<<"y">>)},
        b \in {None, Num(7), Str(<<"b">>)},
        a \in {<<Num(5), Num(2)>>, <<NaN, Num(2)>>, <<Num(-1), Num(2)>>,
               <<Num(5), Num(-1)>>}}

\* a ProductImporter has been constructed; the dimension tables may hold
\* rows of earlier imports
InitProduct ==
    /\ stats = ProcessingStats(0) /\ now = 1
    /\ cfg = [chunk_size |-> 0, max_retries |-> 3, enable_validation |-> TRUE]
    /\ file = [exists |-> FALSE, readable |-> FALSE, valid |-> FALSE, rows |-> <<>>]
    /\ pc = "product"
    /\ chunk_size = 0 /\ offset = 0 /\ df = <<>> /\ i = 0 /\ j = 0
    /\ batch_records = <<>> /\ deduped_data = <<>> /\ calls = <<>>
    /\ store = <<>>
    /\ EngineIdle
    /\ dims \in [item_names : SUBSET {Str(<<"x">>)},
                 brands : SUBSET {Str(<<"N", "A">>)}]
    /\ item_name_cache = <<>>
    /\ brand_cache = <<>>

\* the rows process_batch has counted
RowsCounted(st) ==
    st.successful_records + st.skipped_records + st.error_records

\* one iteration of the loop of process_batch of a ProductImporter: the row
\* goes through process_row and is counted; calls holds the row and what
\* process_row did for it
ProcessProductRow ==
    /\ pc = "product"
    /\ RowsCounted(stats) < MaxProductRows
    /\ \E row \in ProductRows, fail_at \in StoreFaults :
          LET r == ProductProcessRow(row, fail_at, item_name_cache,
                                     brand_cache, dims)
              res == [out |-> r.out, rec |-> r.rec]
          IN  /\ stats' = CountRow(stats, res)
              /\ batch_records' = CollectRow(batch_records, res)
              /\ calls' = <<[ev |-> "row", row |-> row, out |-> r.out]>> \o r.log
              /\ item_name_cache' = r.item_name_cache
              /\ brand_cache' = r.brand_cache
              /\ dims' = r.dims
    /\ UNCHANGED <<cfg, now, pc, file, chunk_size, offset, df, i, j,
                   deduped_data, store, engineVars>>

\* process_batch is entered again, for the next batch of the run or for the
\* first batch of a later run of the same importer: batch_records = []
NextProductBatch ==
    /\ pc = "product"
    /\ calls # <<>>
    /\ batch_records' = <<>>
    /\ calls' = <<>>
    /\ UNCHANGED <<stats, cfg, now, pc, file, chunk_size, offset, df, i, j,
                   deduped_data, store, engineVars, productVars>>

NextProduct == ProcessProductRow \/ NextProductBatch

SpecProduct == InitProduct /\ [][NextProduct]_vars

\* the cache of the lookups in a dimension table
CacheOf(table, inc, bc) == IF table = "item_names" THEN inc ELSE bc

\* every entry of the cache is still there, with the same id
CacheKept(before, after) ==
    \A k \in Keys(before) : HasField(after, k) /\ Get(after, k) = Get(before, k)

\* C22 -- the lookup caches of an importer only grow: an entry once made is
\* never removed or changed, across rows, batches and runs, and a lookup
\* whose key is in the cache returns the cached id without a call of the
\* store.
C22_CachesOnlyGrow ==
    [][/\ CacheKept(item_name_cache, item_name_cache')
       /\ CacheKept(brand_cache, brand_cache')
       /\ stats' # stats =>
             \A n \in 2..Len(calls') :
                LET e == calls'[n]
                    hit == HasField(CacheOf(e.table, item_name_cache, brand_cache),
                                    e.key)
                IN  /\ e.ev \in {"listOne", "upsertRecord"} => ~hit
                    /\ (e.ev = "return" /\ hit) =>
                          e.id = Get(CacheOf(e.table, item_name_cache, brand_cache),
                                     e.key)]_vars

\* C22 witness: a row of a later batch whose item name and brand were both
\* answered from the caches, with no call of the store
C22_Witness ==
    /\ pc = "product"
    /\ Len(calls) = 3
    /\ calls[1].out = "record"
    /\ calls[2].ev = "return" /\ calls[2].id = Get(item_name_cache, calls[2].key)
    /\ calls[3].ev = "return" /\ calls[3].id = Get(brand_cache, calls[3].key)
    /\ stats.successful_records > 1
    /\ Len(batch_records) = 1

\* the row raises inside process_row: a cell that is not a name, or a
\* negative MRP or stock handed to ProductModel
RaisesInside(row) ==
    \/ ItemNameRaises(row.item_name)
    \/ (~IsNaN(row.mrp) /\ NumLess(row.mrp, Num(0)))
    \/ NumLess(row.current_stock, Num(0))

\* a store call of the row's lookups raised
LookupFailed(evs) ==
    \E n \in 2..Len(evs) :
        /\ evs[n].ev = "return"
        /\ IsNone(evs[n].id)
        /\ evs[n - 1].ev \in {"listOne", "upsertRecord"}

\* C28 -- in a run of ProductImporter a failure inside the row transform
\* (ProductModel rejecting a negative MRP or stock, a cell that is no name,
\* a lookup error) is caught inside process_row and becomes a null result:
\* the row is counted in skipped_records, and error_records is never
\* incremented by a product row.
C28_ProductRowFailuresSkipped ==
    /\ [](stats.error_records = 0)
    /\ [][(stats' # stats /\ (RaisesInside(calls'[1].row) \/ LookupFailed(calls')))
             => /\ calls'[1].out = "none"
                /\ stats'.skipped_records = stats.skipped_records + 1
                /\ stats'.successful_records = stats.successful_records
                /\ batch_records' = batch_records]_vars

\* C28 witness: both lookups gave an id and ProductModel rejected the
\* negative MRP; the row was counted as skipped
C28_Witness ==
    /\ pc = "product"
    /\ Len(calls) > 2
    /\ calls[1].row.mrp = Num(-1)
    /\ calls[1].row.current_stock = Num(2)
    /\ calls[1].out = "none"
    /\ \E n \in 2..Len(calls) :
          calls[n].ev = "return" /\ calls[n].table = "item_names"
              /\ ~IsNone(calls[n].id)
    /\ \E n \in 2..Len(calls) :
          calls[n].ev = "return" /\ calls[n].table = "brands"
              /\ ~IsNone(calls[n].id)
    /\ stats.skipped_records = 1
    /\ stats.successful_records = 1

====
